---------------------------- MODULE Spec2Model ----------------------------
(***************************************************************************)
(* A model of the obsidian-novel plugin: the document parser               *)
(* (parser/novel-parser.ts), the document types (parser/novel-types.ts)    *)
(* and the decoration pass of the editor (novel-editor.ts).                *)
(*                                                                         *)
(* A buffer is a TLA+ string whose line breaks are single "\n" characters, *)
(* as in a CodeMirror Text: offsets count every character, a line break    *)
(* included, and a line {from, to, text} excludes its line break.          *)
(***************************************************************************)
EXTENDS Integers, Sequences, FiniteSets, TLC

(***************************************************************************)
(* Bounds of the model.                                                    *)
(***************************************************************************)
\* The generated buffers have at most this many lines.
MaxLines == 3

(***************************************************************************)
(* Strings, the way JavaScript indexes them (0-based).                     *)
(***************************************************************************)
Min(a, b) == IF a <= b THEN a ELSE b
Max(a, b) == IF a >= b THEN a ELSE b

\* s[i]; the empty string stands for `undefined`.
Ch(s, i) == IF i >= 0 /\ i < Len(s) THEN SubSeq(s, i + 1, i + 1) ELSE ""

\* s.slice(a, b) for 0 <= a, b.
Mid(s, a, b) == IF a >= b THEN "" ELSE SubSeq(s, a + 1, Min(b, Len(s)))

\* The characters the regular expression class \w matches, among those the
\* model's buffers use, and the ones \s matches inside a line.
WordChars ==
    {"A", "B", "C", "D", "E", "F", "G", "H", "I", "J", "K", "L", "M", "N",
     "O", "P", "Q", "R", "S", "T", "U", "V", "W", "X", "Y", "Z",
     "a", "b", "c", "d", "e", "f", "g", "h", "i", "j", "k", "l", "m", "n",
     "o", "p", "q", "r", "s", "t", "u", "v", "w", "x", "y", "z",
     "0", "1", "2", "3", "4", "5", "6", "7", "8", "9", "_"}
IsWord(c) == c \in WordChars
IsSpace(c) == c \in {" ", "\t"}

\* The length of the longest run of \w (of \s) characters of s from index i.
WordRun(s, i) ==
    CHOOSE n \in 0..Len(s) :
        /\ \A k \in 0..(n - 1) : IsWord(Ch(s, i + k))
        /\ ~IsWord(Ch(s, i + n))
SpaceRun(s, i) ==
    CHOOSE n \in 0..Len(s) :
        /\ \A k \in 0..(n - 1) : IsSpace(Ch(s, i + k))
        /\ ~IsSpace(Ch(s, i + n))

\* s.indexOf(c, i), or Len(s) when c does not occur from index i on.
IndexFrom(s, c, i) ==
    CHOOSE j \in i..Max(i, Len(s)) :
        /\ j >= Len(s) \/ Ch(s, j) = c
        /\ \A k \in i..(j - 1) : Ch(s, k) # c

\* s.trim() == "".
IsBlank(s) == \A k \in 0..(Len(s) - 1) : IsSpace(Ch(s, k))

(***************************************************************************)
(* CodeMirror's Text: length, lineAt and slice.                            *)
(***************************************************************************)
\* lineAt raises a RangeError for a position outside [0, length].
LineAtOk(source, pos) == pos >= 0 /\ pos <= Len(source)

\* The line around pos (from <= pos <= to); `to` is the offset of the line
\* break that ends the line, or the length of the buffer.
lineAt(source, pos) ==
    LET Line(from, to) ==
            [from |-> from, to |-> to, text |-> Mid(source, from, to)]
        Around(p) ==
            Line((CHOOSE i \in 0..p :
                    /\ i = 0 \/ Ch(source, i - 1) = "\n"
                    /\ \A j \in (i + 1)..p : Ch(source, j - 1) # "\n"),
                 (CHOOSE i \in p..Len(source) :
                    /\ i = Len(source) \/ Ch(source, i) = "\n"
                    /\ \A j \in p..(i - 1) : Ch(source, j) # "\n"))
    IN  Around(Max(0, Min(pos, Len(source))))

\* Text.slice(from, to) clips both ends to the buffer.
slice(source, from, to) ==
    LET Clip(f) == Mid(source, f, Max(f, Min(Len(source), to)))
    IN  Clip(Max(0, Min(Len(source), from)))

\* The offsets at which the lines of the buffer start.
LineStarts(source) ==
    {i \in 0..Len(source) : i = 0 \/ Ch(source, i - 1) = "\n"}

(***************************************************************************)
(* utils/success.ts                                                        *)
(***************************************************************************)
Success(value) == [success |-> TRUE, value |-> value]
Failure == [success |-> FALSE, value |-> "undefined"]

(***************************************************************************)
(* parser/novel-types.ts                                                   *)
(***************************************************************************)
\* A Metadata record: a function from the keys present to their values.
EmptyMetadata == [k \in {} |-> ""]
SetProperty(metadata, key, value) ==
    [k \in (DOMAIN metadata) \cup {key} |->
        IF k = key THEN value ELSE metadata[k]]

\* RichText.simpleFromString: one Text part holding the whole string.
simpleFromString(text) == [parts |-> <<[t |-> "text", c |-> text]>>]

\* new ActionLine(range, content) and new TaggedAction(range, tag, content):
\* `class` is the constructor the instance was made with.
ActionLine(range, content) ==
    [class |-> "ActionLine", from |-> range.from, to |-> range.to,
     content |-> content]
TaggedAction(range, tag, content) ==
    [class |-> "TaggedAction", from |-> range.from, to |-> range.to,
     tag |-> tag, content |-> content]

\* x instanceof class: an object literal is an instance of no item class.
InstanceOf(x, class) == "class" \in DOMAIN x /\ x.class = class

(***************************************************************************)
(* parser/novel-parser.ts: the line patterns.                              *)
(***************************************************************************)
\* HEADER_REGEX = /^(==\s*)(.+?)(\s*==)/, and the decoration pass's variant
\* that ends in $ (anchored).  A way to match is a pair <<w, n>>: the
\* first group takes w blanks, the name takes n characters, and the blanks
\* after the name are followed by "==".  The regular expression engine tries
\* the larger w first, and for each w the smaller n first.
HeaderWays(text, anchored) ==
    LET Closes(c) ==
            /\ Ch(text, c) = "="
            /\ Ch(text, c + 1) = "="
            /\ anchored => (c + 2 = Len(text))
        NameEnds(e) == e <= Len(text) /\ Closes(e + SpaceRun(text, e))
    IN  IF Ch(text, 0) # "=" \/ Ch(text, 1) # "=" THEN {}
        ELSE {wn \in (0..SpaceRun(text, 2)) \X (1..Len(text)) :
                NameEnds(2 + wn[1] + wn[2])}

\* HeaderMatch with a pattern that also takes single equals signs as
\* delimiters: /^(=+\s*)(.+?)(\s*=+)/.
HeaderMatchSingle(text, anchored) ==
    LET Taken(open, e) ==
            [matched |-> TRUE, all |-> e + SpaceRun(text, e) + 2,
             open |-> open, name |-> Mid(text, open, e)]
        Single(close) ==
            IF Ch(text, 0) = "=" /\ Ch(text, 1) # "=" /\ close < Len(text)
            THEN [matched |-> TRUE, all |-> close + 1, open |-> 1,
                  name |-> Mid(text, 1, close)]
            ELSE [matched |-> FALSE, all |-> 0, open |-> 0, name |-> ""]
        First(wn) == Taken(2 + wn[1], 2 + wn[1] + wn[2])
        Pick(ways) ==
            IF ways = {} THEN Single(IndexFrom(text, "=", 2))
            ELSE First(CHOOSE a \in ways : \A b \in ways :
                        \/ a[1] > b[1]
                        \/ a[1] = b[1] /\ a[2] <= b[2])
    IN  Pick(HeaderWays(text, anchored))

HeaderMatch(text, anchored) ==
    LET Taken(open, e) ==
            [matched |-> TRUE, all |-> e + SpaceRun(text, e) + 2,
             open |-> open, name |-> Mid(text, open, e)]
        First(wn) == Taken(2 + wn[1], 2 + wn[1] + wn[2])
        Pick(ways) ==
            IF ways = {}
            THEN [matched |-> FALSE, all |-> 0, open |-> 0, name |-> ""]
            ELSE First(CHOOSE a \in ways : \A b \in ways :
                        \/ a[1] > b[1]
                        \/ a[1] = b[1] /\ a[2] <= b[2])
    IN  Pick(HeaderWays(text, anchored))

\* REGEX = /^(\w+)(:\s*)(.*)(\s*)$/: the third group is greedy and takes the
\* rest of the line, its trailing blanks included.
PropertyMatch(text) ==
    LET Key(k) ==
            IF k >= 1 /\ Ch(text, k) = ":"
            THEN [matched |-> TRUE, all |-> Len(text), key |-> Mid(text, 0, k),
                  value |-> Mid(text, k + 1 + SpaceRun(text, k + 1), Len(text))]
            ELSE [matched |-> FALSE, all |-> 0, key |-> "", value |-> ""]
    IN  Key(WordRun(text, 0))

\* TAGGED_ACTION_REGEX = /^@(\w+) (.+?)$/
TaggedActionMatch(text) ==
    LET Tag(k) ==
            IF Ch(text, 0) = "@" /\ k >= 1 /\ Ch(text, 1 + k) = " "
               /\ Len(text) >= k + 3
            THEN [matched |-> TRUE, all |-> Len(text),
                  tag |-> Mid(text, 1, 1 + k),
                  content |-> Mid(text, k + 2, Len(text))]
            ELSE [matched |-> FALSE, all |-> 0, tag |-> "", content |-> ""]
    IN  Tag(WordRun(text, 1))

(***************************************************************************)
(* parser/novel-parser.ts: the functions.                                  *)
(***************************************************************************)
parseRichText(source, from, to) ==
    Success(simpleFromString(slice(source, from, to)))

parseProperty(source, position) ==
    LET Matched(match) ==
            IF ~match.matched THEN Failure
            ELSE Success(<<match.key, match.value,
                           [from |-> position, to |-> position + match.all]>>)
    IN  Matched(PropertyMatch(lineAt(source, position).text))

parseTaggedAction(source, from) ==
    LET Tagged(match, to, richText) ==
            IF ~match.matched THEN Failure
            ELSE IF ~richText.success THEN Failure
            ELSE Success(TaggedAction([from |-> from, to |-> to], match.tag,
                                      richText.value))
        Matched(match) ==
            Tagged(match, from + match.all,
                   parseRichText(source, from + 1 + Len(match.tag),
                                 from + match.all))
    IN  Matched(TaggedActionMatch(lineAt(source, from).text))

\* parseScene's advanceLine.
sceneAdvanceLine(source, currentPosition) ==
    Min(Len(source), lineAt(source, currentPosition).to + 1)

\* The state of a running parseScene: the scene under construction, the
\* cursor, which loop runs ("properties", "items", "done") and whether a
\* call of lineAt raised.
\*
\* One iteration of parseScene's first loop (the scene's properties).
ScenePropertyStep(source, st) ==
    LET Took(property) ==
            IF property.success
            THEN [st EXCEPT
                    !.scene.metadata =
                        SetProperty(@, property.value[1], property.value[2]),
                    !.currentPosition = property.value[3].to + 1]
            ELSE [st EXCEPT !.loop = "items"]
    IN  IF ~(st.currentPosition < Len(source))
        THEN [st EXCEPT !.loop = "items"]
        ELSE IF ~LineAtOk(source, st.currentPosition)
        THEN [st EXCEPT !.raised = TRUE, !.loop = "done"]
        ELSE IF lineAt(source, st.currentPosition).text = "\n"
        THEN [st EXCEPT !.currentPosition =
                            sceneAdvanceLine(source, st.currentPosition) + 1]
        ELSE Took(parseProperty(source, st.currentPosition))

\* One iteration of parseScene's second loop (the scene's items).
SceneItemStep(source, st) ==
    LET Item(line, parseTaggedActionResult, richText) ==
            IF line.text = "\n"  \* line.text.trim() == "\n"
            THEN [st EXCEPT !.currentPosition =
                                sceneAdvanceLine(source, st.currentPosition) + 1]
            ELSE IF Ch(line.text, 0) = "="
            THEN [st EXCEPT !.currentPosition = @ - 1, !.loop = "done"]
            ELSE IF parseTaggedActionResult.success
            THEN [st EXCEPT
                    !.scene.items =
                        Append(@, [t |-> "taggedAction",
                                   c |-> parseTaggedActionResult.value]),
                    !.currentPosition = parseTaggedActionResult.value.to + 1]
            ELSE [st EXCEPT
                    !.scene.items =
                        IF richText.success
                        THEN Append(@, [t |-> "action",
                                        c |-> ActionLine([from |-> line.from,
                                                          to |-> line.to],
                                                         richText.value)])
                        ELSE @,
                    !.currentPosition =
                        sceneAdvanceLine(source, st.currentPosition)]
        On(line) ==
            Item(line, parseTaggedAction(source, st.currentPosition),
                 parseRichText(source, st.currentPosition, line.to))
    IN  IF ~(st.currentPosition < Len(source))
        THEN [st EXCEPT !.loop = "done"]
        ELSE IF ~LineAtOk(source, st.currentPosition)
        THEN [st EXCEPT !.raised = TRUE, !.loop = "done"]
        ELSE On(lineAt(source, st.currentPosition))

RECURSIVE SceneLoops(_, _)
SceneLoops(source, st) ==
    IF st.loop = "properties"
    THEN SceneLoops(source, ScenePropertyStep(source, st))
    ELSE IF st.loop = "items"
    THEN SceneLoops(source, SceneItemStep(source, st))
    ELSE st

\* The state in which parseScene enters its loops when called at `position`
\* on a line that matches HEADER_REGEX.
SceneStart(source, position) ==
    [scene |-> [name |-> HeaderMatch(lineAt(source, position).text, FALSE).name,
                metadata |-> EmptyMetadata, items |-> <<>>,
                from |-> lineAt(source, position).from, to |-> 0],
     currentPosition |->
         position + HeaderMatch(lineAt(source, position).text, FALSE).all + 1,
     loop |-> "properties",
     raised |-> FALSE]

\* The states parseScene's two loops go through, one per evaluation of a
\* loop condition, up to the state in which `scene.to` is assigned.
RECURSIVE SceneRun(_, _)
SceneRun(source, st) ==
    IF st.loop = "properties"
    THEN <<st>> \o SceneRun(source, ScenePropertyStep(source, st))
    ELSE IF st.loop = "items"
    THEN <<st>> \o SceneRun(source, SceneItemStep(source, st))
    ELSE <<st>>

\* parseScene: a Success carrying the scene, or a Failure; `raised` tells
\* that the call ended in an exception instead.
parseScene(source, position) ==
    LET Ended(st) ==
            [success |-> ~st.raised,
             value |-> [st.scene EXCEPT !.to = st.currentPosition],
             raised |-> st.raised]
        Header(line, match) ==
            IF ~match.matched
            THEN [success |-> FALSE, value |-> "undefined", raised |-> FALSE]
            ELSE Ended(SceneLoops(source,
                    [scene |-> [name |-> match.name,
                                metadata |-> EmptyMetadata,
                                items |-> <<>>, from |-> line.from, to |-> 0],
                     currentPosition |-> position + match.all + 1,
                     loop |-> "properties",
                     raised |-> FALSE]))
        On(line) == Header(line, HeaderMatch(line.text, FALSE))
    IN  IF ~LineAtOk(source, position)
        THEN [success |-> FALSE, value |-> "undefined", raised |-> TRUE]
        ELSE On(lineAt(source, position))

\* advanceLine moving to the end of the line before the current one.
advanceLineBack(source, currentPosition) ==
    Max(0, lineAt(source, currentPosition).from - 1)

\* advanceLine without its Math.min(source.length, ...).
advanceLineUnclamped(source, currentPosition) ==
    lineAt(source, currentPosition).to + 2

\* parseDocument's advanceLine.
advanceLine(source, currentPosition) ==
    Min(Len(source), lineAt(source, currentPosition).to + 2)

\* The state of a running parseDocument: the script under construction, the
\* cursor, which loop runs ("properties", "scenes", "return") and whether
\* an exception was raised.
ParseStart ==
    [script |-> [metadata |-> EmptyMetadata, scenes |-> <<>>],
     currentPosition |-> 0,
     loop |-> "properties",
     raised |-> FALSE]

\* One iteration of parseDocument's first loop (the document's properties).
DocumentPropertyStep(source, st) ==
    LET Took(property) ==
            IF property.success
            THEN [st EXCEPT
                    !.script.metadata =
                        SetProperty(@, property.value[1], property.value[2]),
                    !.currentPosition = property.value[3].to + 1]
            ELSE [st EXCEPT !.loop = "scenes"]
    IN  IF ~(st.currentPosition < Len(source))
        THEN [st EXCEPT !.loop = "scenes"]
        ELSE IF ~LineAtOk(source, st.currentPosition)
        THEN [st EXCEPT !.raised = TRUE, !.loop = "return"]
        ELSE IF IsBlank(lineAt(source, st.currentPosition).text)
        THEN [st EXCEPT !.currentPosition = @ + 1]
        ELSE Took(parseProperty(source, st.currentPosition))

\* One iteration of parseDocument's second loop (the scenes).
DocumentSceneStep(source, st) ==
    LET Attempted(parseSceneResult, advanced) ==
            IF parseSceneResult.raised
            THEN [st EXCEPT !.raised = TRUE, !.loop = "return"]
            ELSE IF parseSceneResult.success
            THEN [st EXCEPT
                    !.script.scenes = Append(@, parseSceneResult.value),
                    !.currentPosition = parseSceneResult.value.to + 1]
            ELSE IF ~LineAtOk(source, advanced)
            THEN [st EXCEPT !.raised = TRUE, !.loop = "return"]
            ELSE [st EXCEPT !.currentPosition = advanceLine(source, advanced)]
    IN  IF ~(st.currentPosition < Len(source))
        THEN [st EXCEPT !.loop = "return"]
        ELSE IF ~LineAtOk(source, st.currentPosition)
        THEN [st EXCEPT !.raised = TRUE, !.loop = "return"]
        ELSE IF IsBlank(lineAt(source, st.currentPosition).text)
        THEN [st EXCEPT !.currentPosition = @ + 1]
        ELSE Attempted(parseScene(source, st.currentPosition),
                       advanceLine(source, st.currentPosition))

RECURSIVE DocumentLoops(_, _)
DocumentLoops(source, st) ==
    IF st.loop = "properties"
    THEN DocumentLoops(source, DocumentPropertyStep(source, st))
    ELSE IF st.loop = "scenes"
    THEN DocumentLoops(source, DocumentSceneStep(source, st))
    ELSE st

\* parseDocument as one call: the Success it returns, or "raised".
parseDocument(source) ==
    LET Returned(st) ==
            IF st.raised THEN [success |-> FALSE, value |-> "raised"]
            ELSE Success(st.script)
    IN  Returned(DocumentLoops(source, ParseStart))


(***************************************************************************)
(* parser/novel-types.ts: the queries on a document.                       *)
(***************************************************************************)
\* this._scenes.flatMap(scene => scene.items)
RECURSIVE flatMapItems(_)
flatMapItems(scenes) ==
    IF scenes = <<>> THEN <<>>
    ELSE Head(scenes).items \o flatMapItems(Tail(scenes))

\* NovelDocument.cues(tag):
\* items.filter(x => x instanceof TaggedAction && x.tag == tag)
cues(document, tag) ==
    SelectSeq(flatMapItems(document.scenes),
              LAMBDA x : InstanceOf(x, "TaggedAction") /\ x.tag = tag)

(***************************************************************************)
(* novel-editor.ts: the line patterns of the decoration pass.              *)
(***************************************************************************)
\* JavaScript's null and undefined.
Null == "<null>"

\* s.trim()
Trim(s) ==
    IF IsBlank(s) THEN ""
    ELSE LET a == SpaceRun(s, 0)
             b == CHOOSE j \in 1..Len(s) :
                    /\ ~IsSpace(Ch(s, j - 1))
                    /\ \A k \in j..(Len(s) - 1) : IsSpace(Ch(s, k))
         IN  Mid(s, a, b)

\* What \s*(X+?)\s* captures in a non-empty s all of whose characters X
\* admits: s trimmed, or the last blank of an s made of blanks.
Captured(s) == IF IsBlank(s) THEN Ch(s, Len(s) - 1) ELSE Trim(s)

\* /^(\/\/\s*)(.+)$/
CommentMatch(text) ==
    LET Opened(w) ==
            IF Ch(text, 0) = "/" /\ Ch(text, 1) = "/" /\ Len(text) >= 3
            THEN [matched |-> TRUE,
                  open |-> IF 2 + w < Len(text) THEN 2 + w ELSE Len(text) - 1]
            ELSE [matched |-> FALSE, open |-> 0]
    IN  Opened(SpaceRun(text, 2))

\* /^(\w+):\s*(.+?)$/
StyledPropertyMatch(text) ==
    LET Key(k) ==
            IF k >= 1 /\ Ch(text, k) = ":" /\ Len(text) >= k + 2
            THEN [matched |-> TRUE, key |-> Mid(text, 0, k)]
            ELSE [matched |-> FALSE, key |-> ""]
    IN  Key(WordRun(text, 0))

\* REFERENCE_REGEX = /\[\[(.+?)(?:\|(.+?))?\]\]$/ on the content of a tagged
\* action: the leftmost "[[" that leaves room for a name before the final
\* "]]"; the name ends at the first "|" that leaves room for an alias.
ReferenceMatch(content) ==
    LET n == Len(content)
        Least(set) == CHOOSE a \in set : \A b \in set : a <= b
        Named(i, bars) ==
            IF bars # {}
            THEN [matched |-> TRUE,
                  reference |-> Mid(content, i + 2, Least(bars)),
                  alias |-> Mid(content, Least(bars) + 1, n - 2)]
            ELSE [matched |-> TRUE, reference |-> Mid(content, i + 2, n - 2),
                  alias |-> Null]
        From(i) ==
            Named(i, {p \in (i + 3)..(n - 4) : Ch(content, p) = "|"})
        Opens(opens) ==
            IF n >= 5 /\ Ch(content, n - 1) = "]" /\ Ch(content, n - 2) = "]"
               /\ opens # {}
            THEN From(Least(opens))
            ELSE [matched |-> FALSE, reference |-> Null, alias |-> Null]
    IN  Opens({i \in 0..(n - 5) :
                Ch(content, i) = "[" /\ Ch(content, i + 1) = "["})

\* line.text.startsWith('%PROMPT ')
PromptMatch(text) == Mid(text, 0, 8) = "%PROMPT "

\* /^\[\s*([^\[\]|]+?)\s*(?:\|\s*([^\[\]]+?)\s*)?\]$/
SpeakerMatch(text) ==
    LET n == Len(text)
        none == [matched |-> FALSE, reference |-> Null, alias |-> Null]
        Sides(left, right) ==
            IF left = "" \/ right = "" THEN none
            ELSE [matched |-> TRUE, reference |-> Captured(left),
                  alias |-> Captured(right)]
        Split(inner, p) ==
            IF ~(/\ n >= 3
                 /\ Ch(text, 0) = "["
                 /\ Ch(text, n - 1) = "]"
                 /\ \A k \in 0..(Len(inner) - 1) :
                        Ch(inner, k) \notin {"[", "]"})
            THEN none
            ELSE IF p >= Len(inner)
            THEN [matched |-> TRUE, reference |-> Captured(inner),
                  alias |-> Null]
            ELSE Sides(Mid(inner, 0, p), Mid(inner, p + 1, Len(inner)))
        Inside(inner) == Split(inner, IndexFrom(inner, "|", 0))
    IN  Inside(Mid(text, 1, n - 1))

\* The end of the match of an inline pattern that starts at index i of the
\* text, or -1 when the pattern does not match there.
\*   wikilink  /\[\[([^\]]+?)(?:\|([^\]]+?))?\]\]/g
\*   link      /\[([^\]]+?)\](?:\(([^\)]+?)\))/g
\*   bold      /\*\*([^\*]+?)\*\*/g
\*   italic    /(?<!\*)\*([^\*]+?)\*/g
InlineMatchEnd(kind, text, i) ==
    LET Wikilink(j) ==
            IF /\ Ch(text, i) = "[" /\ Ch(text, i + 1) = "["
               /\ j >= i + 3 /\ Ch(text, j) = "]" /\ Ch(text, j + 1) = "]"
            THEN j + 2 ELSE -1
        Target(j, k) ==
            IF /\ Ch(text, i) = "[" /\ j >= i + 2 /\ Ch(text, j) = "]"
               /\ Ch(text, j + 1) = "(" /\ k >= j + 3 /\ Ch(text, k) = ")"
            THEN k + 1 ELSE -1
        Link(j) == Target(j, IndexFrom(text, ")", j + 2))
        Bold(j) ==
            IF /\ Ch(text, i) = "*" /\ Ch(text, i + 1) = "*"
               /\ j >= i + 3 /\ Ch(text, j) = "*" /\ Ch(text, j + 1) = "*"
            THEN j + 2 ELSE -1
        Italic(j) ==
            IF /\ Ch(text, i) = "*" /\ Ch(text, i - 1) # "*"
               /\ j >= i + 2 /\ Ch(text, j) = "*"
            THEN j + 1 ELSE -1
    IN  IF kind = "wikilink" THEN Wikilink(IndexFrom(text, "]", i + 2))
        ELSE IF kind = "link" THEN Link(IndexFrom(text, "]", i + 1))
        ELSE IF kind = "bold" THEN Bold(IndexFrom(text, "*", i + 2))
        ELSE Italic(IndexFrom(text, "*", i + 1))

\* text.matchAll(pattern): the matches from index i on, left to right, as
\* ranges [from, to) of the text.
RECURSIVE matchAll(_, _, _)
matchAll(kind, text, i) ==
    LET Matched(e) ==
            IF e < 0 THEN matchAll(kind, text, i + 1)
            ELSE <<[from |-> i, to |-> e]>> \o matchAll(kind, text, e)
    IN  IF i >= Len(text) THEN <<>>
        ELSE Matched(InlineMatchEnd(kind, text, i))

\* The name and the alias a wikilink match captures: the name ends at the
\* first "|" that leaves room for an alias.
WikilinkParts(text, match) ==
    LET Least(set) == CHOOSE a \in set : \A b \in set : a <= b
        Named(bars) ==
            IF bars = {}
            THEN [reference |-> Mid(text, match.from + 2, match.to - 2),
                  alias |-> Null]
            ELSE [reference |-> Mid(text, match.from + 2, Least(bars)),
                  alias |-> Mid(text, Least(bars) + 1, match.to - 2)]
    IN  Named({p \in (match.from + 3)..(match.to - 4) : Ch(text, p) = "|"})

\* The label and the target a link match captures.
LinkParts(text, match) ==
    LET Label(j) ==
            [reference |-> Mid(text, j + 2, match.to - 1),
             alias |-> Mid(text, match.from + 1, j)]
    IN  Label(IndexFrom(text, "]", match.from + 1))

(***************************************************************************)
(* novel-editor.ts: the decorations.                                       *)
(***************************************************************************)
\* Decoration.mark({class}) over [from, to).  `selected` tells that the class
\* list carries isSelectedClass; `detail` is what else the class list is
\* computed from (a scene's Tags, a tag's name, "parenthetical").
Mark(from, to, class, selected, detail) ==
    [from |-> from, to |-> to, replace |-> FALSE, class |-> class,
     selected |-> selected, detail |-> detail, contd |-> FALSE]

\* Decoration.replace({widget}) over [from, to): the widget's class, the text
\* it shows (alias ?? reference) and its "(CONT'D)" option.
Replace(from, to, widget, reference, alias, contd) ==
    [from |-> from, to |-> to, replace |-> TRUE, class |-> widget,
     selected |-> FALSE,
     detail |-> IF alias # Null THEN alias ELSE reference,
     contd |-> contd]

\* SpeakerWidget.toDOM: el.textContent.
textContent(decoration) ==
    IF decoration.contd THEN decoration.detail \o " (CONT'D)"
    ELSE decoration.detail

\* The same with a range that only touches the line left out.
lineHasCursorInside(selectionRanges, line) ==
    \E r \in selectionRanges : ~(r.to <= line.from \/ r.from >= line.to)

\* selectionRanges.some(r => !(r.to < line.from || r.from > line.to))
lineHasCursor(selectionRanges, line) ==
    \E r \in selectionRanges : ~(r.to < line.from \/ r.from > line.to)

\* NovelView.sceneAtExact.  The structure is <<>> for null and <<document>>
\* otherwise; the outcome is the set of the scene found, if any.
sceneAtExact(structure, source, position) ==
    LET Least(set) == CHOOSE a \in set : \A b \in set : a <= b
        Found(scenes, found) ==
            IF found = {} THEN {} ELSE {scenes[Least(found)]}
        Find(scenes, from) ==
            Found(scenes, {i \in 1..Len(scenes) : scenes[i].from = from})
    IN  IF structure = <<>> THEN {}
        ELSE Find(structure[1].scenes, lineAt(source, position).from)

\* The scene fold service: the fold range of the scene whose header line
\* starts at lineStart, from the end of that line to the end of the scene;
\* the set is empty when the service returns null.
sceneFoldService(structure, source, lineStart) ==
    {[from |-> lineAt(source, scene.from).to, to |-> scene.to] :
        scene \in sceneAtExact(structure, source, lineStart)}

\* The Tags property of the scene that starts at the position, if any.
SceneTags(structure, source, position) ==
    LET Tags(metadata) ==
            IF "Tags" \in DOMAIN metadata THEN metadata["Tags"] ELSE ""
        Of(scene) ==
            IF scene = {} THEN ""
            ELSE Tags((CHOOSE x \in scene : TRUE).metadata)
    IN  Of(sceneAtExact(structure, source, position))

\* The marks of the tags of a `Tags:` property line: the runs of word
\* characters of line.text.slice("Tags: ".length).
RECURSIVE TagMarks(_, _, _)
TagMarks(line, text, i) ==
    LET Run(k) ==
            IF k = 0 THEN TagMarks(line, text, i + 1)
            ELSE <<Mark(line.from + 6 + i, line.from + 6 + i + k,
                        "novel-tag", FALSE, "")>>
                 \o TagMarks(line, text, i + k)
    IN  IF i >= Len(text) THEN <<>> ELSE Run(WordRun(text, i))

\* lineDeco.sort((a, b) => a.from - b.from): a stable insertion sort.
RECURSIVE SortByFrom(_)
SortByFrom(decos) ==
    LET Insert(rest, last, k) ==
            SubSeq(rest, 1, k) \o <<last>> \o SubSeq(rest, k + 1, Len(rest))
        Place(rest, last) ==
            Insert(rest, last,
                   Cardinality({i \in 1..Len(rest) :
                                    rest[i].from <= last.from}))
    IN  IF decos = <<>> THEN <<>>
        ELSE Place(SortByFrom(SubSeq(decos, 1, Len(decos) - 1)),
                   decos[Len(decos)])

RECURSIVE InlineDecos(_, _, _, _, _)
InlineDecos(kind, line, hasCursor, matches, i) ==
    LET Shown(start, end, widget, parts) ==
            IF hasCursor
            THEN <<Mark(start, end, "novel-wikilink", FALSE, "")>>
            ELSE <<Replace(start, end, widget, parts.reference, parts.alias,
                           FALSE)>>
        Here(m, start, end, inner) ==
            IF kind = "wikilink"
            THEN Shown(start, end, "ReferenceWidget",
                       WikilinkParts(line.text, m))
            ELSE IF kind = "link"
            THEN Shown(start, end, "LinkWidget", LinkParts(line.text, m))
            ELSE IF kind = "bold"
            THEN <<Mark(start, end, "bold", FALSE, ""),
                   Mark(start, start + 2, "hide", FALSE, ""),
                   Mark(start + inner + 2, start + inner + 4, "hide",
                        FALSE, "")>>
            ELSE <<Mark(start, end, "italic", FALSE, ""),
                   Mark(start, start + 1, "hide", FALSE, ""),
                   Mark(start + inner + 1, start + inner + 2, "hide",
                        FALSE, "")>>
        Of(m) ==
            Here(m, line.from + m.from, line.from + m.to,
                 (m.to - m.from) - (IF kind = "bold" THEN 4 ELSE 2))
    IN  IF i > Len(matches) THEN <<>>
        ELSE Of(matches[i])
             \o InlineDecos(kind, line, hasCursor, matches, i + 1)

\* /^\s*\(.*?\)\s*/.test(line.text)
IsParenthetical(text) ==
    LET Opens(a) ==
            Ch(text, a) = "(" /\ IndexFrom(text, ")", a + 1) < Len(text)
    IN  Opens(SpaceRun(text, 0))

\* parseRichTextRange: the decorations of a dialogue or action line, in the
\* order they reach the builder.
parseRichTextRange(line, hasCursor, inDialogue) ==
    LET inline(kind) ==
            InlineDecos(kind, line, hasCursor,
                        matchAll(kind, line.text, 0), 1)
        whole ==
            IF inDialogue
            THEN Mark(line.from, line.to, "novel-dialogue", hasCursor,
                      IF IsParenthetical(line.text) THEN "parenthetical" ELSE "")
            ELSE Mark(line.from, line.to, "novel-action-line", hasCursor, "")
    IN  SortByFrom(inline("wikilink") \o inline("link") \o inline("bold")
                   \o inline("italic") \o <<whole>>)

\* The state of the pass inside one visible range: the cursor, the dialogue
\* state, the decorations added to the builder so far, and the construct
\* each line processed so far was taken for.
RangeStart(from, decorations, constructs) ==
    [pos |-> from, inDialogue |-> FALSE,
     lastSpeaker |-> [reference |-> Null, alias |-> Null],
     decorations |-> decorations, constructs |-> constructs]

\* One iteration of `while (pos <= to)` of buildDecorations.
DecorateLine(source, structure, selectionRanges, st) ==
    LET Classified(line, hasCursor, headerMatch, commentMatch, propertyMatch,
                   tagMatch, speakerMatch) ==
            LET tagLen == Len(tagMatch.tag)
                named == [reference |-> speakerMatch.reference,
                          alias |-> speakerMatch.alias]
                ref == IF speakerMatch.reference = "&"
                       THEN (IF st.lastSpeaker.reference # Null
                             THEN st.lastSpeaker.reference ELSE "???")
                       ELSE speakerMatch.reference
                alias == IF speakerMatch.reference = "&"
                         THEN st.lastSpeaker.alias ELSE speakerMatch.alias
                Took(construct, added) ==
                    [st EXCEPT
                        !.pos = line.to + 1,
                        !.decorations = @ \o added,
                        !.constructs =
                            Append(@, [from |-> line.from,
                                       construct |-> construct])]
                Played(referenceMatch) ==
                    IF ~hasCursor /\ tagMatch.tag \in {"BGM", "SFX"}
                       /\ referenceMatch.matched
                    THEN <<Replace(line.from, line.to, "PlaybackWidget",
                                   referenceMatch.reference,
                                   referenceMatch.alias, FALSE)>>
                    ELSE <<Mark(line.from, line.from + 1 + tagLen,
                                "novel-tagged-action-tag", FALSE, ""),
                           Mark(line.from, line.to, "novel-tagged-action",
                                hasCursor, tagMatch.tag),
                           Mark(line.from + 1 + tagLen + 1, line.to,
                                "novel-tagged-action-text", FALSE, "")>>
                Spoken(added, lastSpeaker) ==
                    [Took("speaker", added)
                        EXCEPT !.inDialogue = TRUE,
                               !.lastSpeaker = lastSpeaker]
            IN  IF IsBlank(line.text)
                THEN [Took("blank", <<>>) EXCEPT !.inDialogue = FALSE]
                ELSE IF headerMatch.matched
                THEN Took("header",
                        <<Mark(line.from, line.to, "novel-scene-header",
                               hasCursor,
                               SceneTags(structure, source, line.from)),
                          Mark(line.from, line.from + headerMatch.open,
                               "hide", FALSE, ""),
                          Mark(line.from + headerMatch.open
                                         + Len(headerMatch.name),
                               line.to, "hide", FALSE, "")>>)
                ELSE IF commentMatch.matched
                THEN Took("comment",
                        <<Mark(line.from, line.from + commentMatch.open,
                               "hide", FALSE, ""),
                          Mark(line.from, line.to, "novel-comment",
                               hasCursor, "")>>)
                ELSE IF propertyMatch.matched
                THEN Took("property",
                        <<Mark(line.from,
                               line.from + 1 + Len(propertyMatch.key),
                               "novel-property-key", FALSE, ""),
                          Mark(line.from, line.to, "novel-property",
                               FALSE, "")>>
                        \o (IF propertyMatch.key = "Tags"
                            THEN TagMarks(line,
                                    Mid(line.text, 6, Len(line.text)), 0)
                            ELSE <<>>))
                ELSE IF tagMatch.matched
                THEN Took("taggedAction",
                          Played(ReferenceMatch(tagMatch.content)))
                ELSE IF PromptMatch(line.text)
                THEN Took("prompt",
                        IF ~hasCursor
                        THEN <<Replace(line.from, line.to, "PromptWidget",
                                       Mid(line.text, 8, Len(line.text)),
                                       Null, FALSE)>>
                        ELSE <<>>)
                ELSE IF speakerMatch.matched
                THEN IF hasCursor
                     THEN Spoken(<<Mark(line.from, line.to, "novel-speaker",
                                        FALSE, "")>>,
                                 named)
                     ELSE Spoken(<<Replace(line.from, line.to,
                                           "SpeakerWidget", ref, alias,
                                           speakerMatch.reference = "&")>>,
                                 IF speakerMatch.reference # "&" THEN named
                                 ELSE st.lastSpeaker)
                ELSE Took(IF st.inDialogue THEN "dialogue" ELSE "action",
                          parseRichTextRange(line, hasCursor, st.inDialogue))
        On(line) ==
            Classified(line, lineHasCursor(selectionRanges, line),
                       HeaderMatch(line.text, TRUE), CommentMatch(line.text),
                       StyledPropertyMatch(line.text),
                       TaggedActionMatch(line.text), SpeakerMatch(line.text))
    IN  On(lineAt(source, st.pos))

(***************************************************************************)
(* repl.ts and typescript-view: the values an expression evaluates to,     *)
(* the evaluator (runTS, runJS) and the pieces of evaluateCode.            *)
(***************************************************************************)
\* The values of the evaluated language, tagged with what typeof tells.
Undefined == [kind |-> "undefined"]
JSNull == [kind |-> "null"]
Num(n) == [kind |-> "number", v |-> n]
Str(s) == [kind |-> "string", v |-> s]
Obj(fields) == [kind |-> "object", v |-> fields]
Error(name) == [kind |-> "error", v |-> name]

FailureWith(value) == [success |-> FALSE, value |-> value]

\* The script the TypeScript view evaluates expressions against.
EXAMPLE_NOV ==
    "\nTitle: Example Script\nAuthor: Pedro Braga\n\n== Scene 1 ==\n"
    \o "Once upon a time, a man got an umbrella.\n\n"
    \o "@BGM Rainy Day\n@BGM Reiny Day\n@BGM Rbiny Day\n@BGM Rciny Day\n"
    \o "@BGM Reiny Day\n@BGM Rziny Day\n@BGM kiny Day\n\n\n"
    \o "It was raining a lot.\n\n@SFX Woosh.\n"

\* The expressions the model evaluates: a plain read of the document, a
\* read through a type assertion, two constants, one that does not compile,
\* one that throws, and two that write through the binding doc.
Expressions ==
    {"doc", "doc as any", "42", "void 0", "1 +", "nothing()",
     "doc.metadata.Title = \"B\"", "doc.scenes.length = 0"}

\* typescript.transpileModule(code, ...).outputText: type syntax is erased
\* and the statement is terminated.
transpileTStoJS(code) ==
    IF code = "doc as any" THEN "doc;\n" ELSE code \o ";\n"

\* vm.createContext(context): an object is contextified in place, undefined
\* stands for a new empty object, anything else is a TypeError.
createContext(context) ==
    CASE context.kind = "object" -> [thrown |-> FALSE, value |-> context]
      [] context.kind = "undefined" -> [thrown |-> FALSE, value |-> Obj(<<>>)]
      [] OTHER -> [thrown |-> TRUE, value |-> Error("TypeError")]

Returns(value, vmContext) ==
    [thrown |-> FALSE, value |-> value, context |-> vmContext]
Throws(name, vmContext) ==
    [thrown |-> TRUE, value |-> Error(name), context |-> vmContext]

\* vm.runInContext(javascript, vmContext): the completion value of the
\* script or the exception it ends with, and the context object after it.
\* The context's properties are the script's globals, shared by reference.
runInContext(javascript, vmContext) ==
    LET Bound == "doc" \in DOMAIN vmContext.v
        Write(document) == Obj([vmContext.v EXCEPT !.doc = document])
    IN  CASE javascript = "42;\n" -> Returns(Num(42), vmContext)
          [] javascript = "void 0;\n" -> Returns(Undefined, vmContext)
          [] javascript = "1 + ;\n" -> Throws("SyntaxError", vmContext)
          [] javascript = "nothing();\n" -> Throws("ReferenceError", vmContext)
          [] javascript = "doc;\n" ->
                IF Bound THEN Returns(Obj(vmContext.v.doc), vmContext)
                ELSE Throws("ReferenceError", vmContext)
          [] javascript = "doc.metadata.Title = \"B\";\n" ->
                IF Bound
                THEN Returns(Str("B"),
                        Write([vmContext.v.doc EXCEPT
                                 !.metadata = SetProperty(@, "Title", "B")]))
                ELSE Throws("ReferenceError", vmContext)
          [] javascript = "doc.scenes.length = 0;\n" ->
                IF Bound
                THEN Returns(Num(0),
                        Write([vmContext.v.doc EXCEPT !.scenes = <<>>]))
                ELSE Throws("ReferenceError", vmContext)
          [] OTHER -> Throws("SyntaxError", vmContext)

\* runJS(javascript, context).  Only vm.runInContext is inside the try.
runJS(javascript, context) ==
    LET Ran(completion) ==
            [raised |-> FALSE,
             result |-> IF completion.thrown THEN FailureWith(completion.value)
                        ELSE Success(completion.value),
             context |-> completion.context]
        Created(vmContext) ==
            IF vmContext.thrown
            THEN [raised |-> TRUE, result |-> FailureWith(vmContext.value),
                  context |-> context]
            ELSE Ran(runInContext(javascript, vmContext.value))
    IN  Created(createContext(context))

\* runTS(typescript, context)
runTS(typescript, context) == runJS(transpileTStoJS(typescript), context)

\* The context evaluateCode hands to the runner: doc is the parsed example
\* script (null had it failed to parse); the other bindings are functions
\* and constructors.
EvaluationContext ==
    LET Bind(docResult) ==
            Obj([doc |-> IF docResult.success THEN docResult.value
                         ELSE JSNull])
    IN  Bind(parseDocument(EXAMPLE_NOV))

\* tryAsText(what): reading what.asText of null or undefined is a TypeError.
tryAsText(what) ==
    IF what.kind \in {"undefined", "null"}
    THEN [thrown |-> TRUE, value |-> Error("TypeError")]
    ELSE [thrown |-> FALSE, value |-> what]

\* What the preview shows: its initial text, or
\* JSON.stringify(value, null, " ") of the last value handed to
\* updatePreview.
InitialPreview == [text |-> "undefined"]
JSONStringify(value) == [json |-> value]

(***************************************************************************)
(* repl.ts: the generic renderer (mapAsText, mapAsDOM).                    *)
(***************************************************************************)
\* More values: arrays, sets (members in insertion order), plain objects
\* (entries in insertion order) and functions.
Arr(items) == [kind |-> "array", items |-> items]
SetOf(items) == [kind |-> "set", items |-> items]
Rec(entries) == [kind |-> "object", entries |-> entries]
Fn(text) == [kind |-> "function", text |-> text]
\* The same value carrying the methods asText and pushDOM.
Renderable(value) ==
    [k \in (DOMAIN value) \cup {"methods"} |->
        IF k = "methods" THEN {"asText", "pushDOM"} ELSE value[k]]

\* typeof what[method] === "function"
HasMethod(what, method) ==
    "methods" \in DOMAIN what /\ method \in what.methods

\* JSON.stringify(value, ...): undefined for undefined and for a function,
\* the JSON text of the value otherwise.
JSONText(value) ==
    IF value.kind \in {"undefined", "function"} THEN Undefined
    ELSE JSONStringify(value)

\* The elements the renderer creates.
Span(text) == [el |-> "span", text |-> text]
Fieldset(children) == [el |-> "fieldset", children |-> children]
Legend(key) == [el |-> "legend", text |-> key]
\* What node.pushDOM(cx) appends to the container.
Pushed(node) == [el |-> "pushDOM", of |-> node]

RECURSIVE mapAsText(_)
RECURSIVE mapAllAsText(_)
\* what.map(mapAsText)
mapAllAsText(items) ==
    IF items = <<>> THEN <<>>
    ELSE <<mapAsText(Head(items))>> \o mapAllAsText(Tail(items))

\* mapAsText(what)
mapAsText(what) ==
    CASE what.kind \in {"null", "undefined"} -> JSONText(what)
      [] HasMethod(what, "asText") -> [asText |-> what]
      [] what.kind = "array" -> [list |-> mapAllAsText(what.items)]
      [] what.kind = "set" -> [list |-> mapAllAsText(what.items)]
      [] OTHER -> JSONText(what)

RECURSIVE mapAsDOM(_, _)
RECURSIVE mapBranches(_, _)
RECURSIVE mapEntries(_)
\* for (const branch of node) await mapAsDOM(branch, {container: fragment},
\* level + 1): the children of the fragment.
mapBranches(items, level) ==
    IF items = <<>> THEN <<>>
    ELSE mapAsDOM(Head(items), level + 1) \o mapBranches(Tail(items), level)

\* for (const [key, value] of entries): one fieldset with a legend per key.
mapEntries(entries) ==
    IF entries = <<>> THEN <<>>
    ELSE <<Fieldset(<<Legend(Head(entries).key)>>
                    \o mapAsDOM(Head(entries).value, 0))>>
         \o mapEntries(Tail(entries))

\* mapAsDOM(node, cx, level): the elements appended to cx.container.
mapAsDOM(node, level) ==
    CASE node.kind \in {"null", "undefined"} -> <<>>
      [] HasMethod(node, "pushDOM") -> <<Pushed(node)>>
      [] node.kind = "array" ->
            IF level > 0 THEN <<Fieldset(mapBranches(node.items, level))>>
            ELSE mapBranches(node.items, level)
      [] node.kind = "set" -> mapAsDOM(Arr(node.items), level)
      [] node.kind = "object" ->
            IF level > 0 /\ Len(node.entries) > 1
            THEN <<Fieldset(mapEntries(node.entries))>>
            ELSE mapEntries(node.entries)
      [] node.kind = "function" -> <<Span([source |-> node.text])>>
      [] OTHER -> <<Span(JSONText(node))>>

(***************************************************************************)
(* novel-view.ts and the editor's update listener: the view's document     *)
(* and the debounced update.                                               *)
(***************************************************************************)
\* The timeout of debounce(this.update, 2000), in milliseconds.
Timeout == 2000
\* Time passes in steps of Tick milliseconds.
Tick == 1000
\* The parses of a burst of edits are counted up to MaxParses.
MaxParses == 2
\* The interval timers alive at a time are counted up to MaxIntervals.
MaxIntervals == 2

NoTimer == [pending |-> FALSE, remaining |-> 0]

\* A call of the function debounce(cb, timeout, resetTimer) returned: it
\* starts the timer when none runs; a running timer starts over only with
\* resetTimer.
Debounced(timer, resetTimer) ==
    IF timer.pending /\ ~resetTimer THEN timer
    ELSE [pending |-> TRUE, remaining |-> Timeout]

\* A request that starts no timer.
requestUpdateDropped(timer) == timer

\* view.requestUpdate(), where requestUpdate = debounce(this.update, 2000):
\* resetTimer is left out.
requestUpdate(timer) == Debounced(timer, FALSE)

\* The same with the result of the parse stored in place of its value.
rebuildStructureResult(view) ==
    LET Parsed(parseResult) ==
            IF parseResult.success
            THEN [view EXCEPT !.structure = <<parseResult>>]
            ELSE view
    IN  IF view.editor = Null THEN view
        ELSE Parsed(parseDocument(view.editor))

\* NovelView.rebuildStructure: without an editor nothing happens; structure
\* is assigned only the value of a successful parse, and an exception of
\* the parser is caught.
rebuildStructure(view) ==
    LET Parsed(parseResult) ==
            IF parseResult.success
            THEN [view EXCEPT !.structure = <<parseResult.value>>]
            ELSE view
    IN  IF view.editor = Null THEN view
        ELSE Parsed(parseDocument(view.editor))

\* NovelView.getScenes()
getScenes(view) ==
    IF view.structure = <<>> THEN <<>> ELSE view.structure[1].scenes

(***************************************************************************)
(* QueryView (query-view.ts) and the status bar estimate of NovelPlugin.   *)
(***************************************************************************)
\* The views a leaf of the workspace can hold: the NovelView of the model,
\* a second NovelView, and a view of another type.
NovelLeaves == {"A", "B"}
WorkspaceLeaves == NovelLeaves \cup {"other"}

\* The second NovelView: open on an empty buffer, never loaded.
OtherNovelView == [editor |-> "", data |-> "", structure |-> <<>>]

\* leaf.view for a leaf that holds a NovelView.
ViewIn(leaf, view) == IF leaf = "A" THEN view ELSE OtherNovelView

\* QueryView before onOpen: currentView is a field without initializer.
QueryClosed ==
    [opened |-> FALSE, currentView |-> "undefined",
     results |-> [text |-> "", entries |-> <<>>]]

\* QueryView.onOpen: the results container and the two event handlers.
QueryOpened ==
    [opened |-> TRUE, currentView |-> "undefined",
     results |-> [text |-> "Results will appear here.", entries |-> <<>>]]

\* QueryView.updateWithHeadings: one entry per scene of view.getScenes(),
\* with the scene's name, its Summary and its Tags.
updateWithHeadings(view) ==
    LET Property(metadata, key, default) ==
            IF key \in DOMAIN metadata THEN metadata[key] ELSE default
        Entry(scene) ==
            [title |-> scene.name,
             summary |-> Property(scene.metadata, "Summary", "No summary."),
             tags |-> Property(scene.metadata, "Tags", "")]
        Entries(scenes) == [i \in 1..Len(scenes) |-> Entry(scenes[i])]
    IN  Entries(getScenes(view))

\* QueryView.updateResults with selectedQuerySource = "Scenes" (its initial
\* value): the view of the most recent leaf is queried when it is a
\* NovelView.
updateResults(query, leaf, view) ==
    IF leaf \in NovelLeaves
    THEN [query EXCEPT
            !.currentView = leaf,
            !.results = [text |-> "",
                         entries |-> updateWithHeadings(ViewIn(leaf, view))]]
    ELSE [query EXCEPT
            !.currentView = Null,
            !.results = [text |-> "No information for the open view.",
                         entries |-> <<>>]]

\* The vault's 'modify' handler of QueryView, for the file of the model's
\* NovelView: the results are updated when currentView is set and shows
\* that file.
onModify(query, leaf, view) ==
    IF query.opened /\ query.currentView = "A"
    THEN updateResults(query, leaf, view) ELSE query

\* NovelView.getEstimates and the text updateInfoEl builds from it.
getEstimates(view) ==
    LET Estimated(lineCount) ==
            [lineCount |-> lineCount, minutes |-> lineCount \div 50]
    IN  Estimated(IF view.editor = Null THEN 0
                  ELSE Cardinality(LineStarts(view.editor)))

\* updateInfoEl(view): the estimate is written and the item is shown.
updateInfoEl(view) ==
    [display |-> "initial",
     text |-> ToString(getEstimates(view).lineCount) \o " lines for "
                  \o ToString(getEstimates(view).minutes) \o "min runtime"]

\* window.clearInterval(previousInterval)
clearInterval(live, previousInterval) ==
    {t \in live : t.id # previousInterval}

\* if (previousInterval) { window.clearInterval(previousInterval); }
clearedIntervals(refresh) ==
    IF refresh.previousInterval # 0
    THEN clearInterval(refresh.live, refresh.previousInterval)
    ELSE refresh.live

\* The plugin's 'active-leaf-change' handler on the interval timers, for a
\* leaf with a NovelView: the previous interval is cleared and a new one,
\* with the identifier id, refreshes the estimate of that view.
setRefresh(refresh, leaf, id) ==
    [previousInterval |-> id,
     live |-> clearedIntervals(refresh) \cup {[id |-> id, view |-> leaf]}]

(***************************************************************************)
(* The buffers the model runs on: every text of at most MaxLines lines     *)
(* drawn from a set of sample lines, and the scenarios of the              *)
(* specification.                                                          *)
(***************************************************************************)
RECURSIVE Join(_)
Join(ls) == IF Len(ls) = 1 THEN ls[1] ELSE ls[1] \o "\n" \o Join(Tail(ls))

TextsOf(lines) ==
    {Join(ls) : ls \in UNION {[1..n -> lines] : n \in 1..MaxLines}}

ParserLines == {"", " ", "== A ==", "==A== x", "=x", "k: v", "@T c", "hi"}
StyledLines ==
    {"", "== A ==", "k: v", "@T c", "// c", "%PROMPT a", "[N]", "[&]", "hi"}

ScenarioA == "Title: A\n\n== Scene 1 ==\nHello.\n\n@BGM Song\n"
ScenarioB == "[Alice]\nHi.\n[&]\nBye.\n"
ScenarioC == "=Scene=\nHello.\n"
\* Scenario B inside a scene, followed by a blank line and one more line.
SceneB == "== S ==\n[Alice]\nHi.\n\nBye.\n"
\* A scene whose only line holds inline markup.
SceneRich == "== S ==\na [[t|u]] **b** *c*\n"
\* A scene header followed by a line delimited by single equals signs.
SceneC == "== S ==\n=Scene=\nHello.\n"

Scenarios == {ScenarioA, ScenarioB, ScenarioC, SceneB, SceneRich, SceneC}

\* Property lines whose value is followed by blanks, and runs of property
\* lines with a repeated key and a blank line, at document scope and inside
\* a scene.
PropertyTexts ==
    {"k: v ", "k: v \n== S ==\nj: w \t\nhi", "k: v\nk: w\n\nj: x",
     "== S ==\nk: v\nk: w\n\nj: x"}

ParserTexts == TextsOf(ParserLines) \cup Scenarios \cup PropertyTexts
StyledExtras == {"==A== x\nhi", "[N|M]\n[&]\n", "@BGM [[s]]\n@SFX x\n"}
StyledTexts == TextsOf(StyledLines) \cup Scenarios \cup StyledExtras

\* The texts decorated in two visible ranges as well: speaker and
\* continuation lines, action lines and blank lines, and the scenarios.
RangedLines == {"", "[N]", "[&]", "hi"}
RangedTexts == TextsOf(RangedLines) \cup Scenarios \cup StyledExtras

\* The selections of the model: a cursor at the start of a line, or a range
\* from the start of a line to the start of the line after it.
Selections(text) ==
    {{[from |-> p, to |-> p]} : p \in LineStarts(text)}
    \cup {{[from |-> p, to |-> lineAt(text, p).to + 1]} :
            p \in {q \in LineStarts(text) : lineAt(text, q).to < Len(text)}}

\* The visible ranges of the model: the whole buffer, and for the texts of
\* RangedTexts the buffer in two ranges that meet at the start of a line.
VisibleRanges(text) ==
    {<<[from |-> 0, to |-> Len(text)]>>}
    \cup {<<[from |-> 0, to |-> p - 1], [from |-> p, to |-> Len(text)]>> :
            p \in IF text \in RangedTexts THEN LineStarts(text) \ {0}
                  ELSE {}}

(***************************************************************************)
(* The parser as a state machine: one step per iteration of                *)
(* parseDocument's loops.                                                  *)
(***************************************************************************)
VARIABLES
    source,            \* the buffer (EditorState.doc)
    loop,              \* where parseDocument is
    currentPosition,   \* parseDocument's cursor
    script,            \* the NovelDocument under construction
    raised,            \* an exception left parseDocument
    result,            \* what parseDocument returned
    selection,         \* state.selection.ranges
    visibleRanges,     \* the ranges buildDecorations is called with
    building,          \* where buildDecorations is
    range,             \* the index of the visible range being decorated
    pass,              \* pos, inDialogue, lastSpeaker and the builder
    data,              \* TypescriptView.data, the expression
    javascript,        \* the transpiled expression
    context,           \* the context object of the evaluation
    caller,            \* who evaluates: the view or another caller
    evaluating,        \* where the evaluation is
    outcome,           \* what the runner returned, or that it threw
    preview,           \* what the preview element shows
    tree,              \* the value handed to the renderer
    rendering,         \* what the renderer made of it
    view,              \* the NovelView: editor, data, structure
    timer,             \* the timer of the debounced update
    history,           \* time since the last edit, parses of the burst
    saving,            \* a save of the view's file has been requested
    query,             \* the QueryView: currentView and the results shown
    leaf,              \* the view in the most recent leaf of the workspace
    infoEl,            \* the status bar item of the estimate
    refresh            \* the interval timers that refresh the estimate

parserVars == <<loop, currentPosition, script, raised, result>>
passVars == <<selection, visibleRanges, building, range, pass>>
queryVars ==
    <<data, javascript, context, caller, evaluating, outcome, preview>>
renderVars == <<tree, rendering>>
deskVars == <<query, leaf, infoEl, refresh>>
viewVars == <<view, timer, history, saving, deskVars>>
vars == <<source, parserVars, passVars, queryVars, renderVars, viewVars>>

NotReturned == [success |-> FALSE, value |-> "pending"]

Running ==
    [script |-> script, currentPosition |-> currentPosition,
     loop |-> loop, raised |-> raised]

Becomes(st) ==
    /\ script' = st.script
    /\ currentPosition' = st.currentPosition
    /\ loop' = st.loop
    /\ raised' = st.raised

\* No decoration pass runs.
NoPass ==
    /\ selection = {}
    /\ visibleRanges = <<>>
    /\ building = "idle"
    /\ range = 0
    /\ pass = RangeStart(0, <<>>, <<>>)

\* The TypeScript view is open on an empty expression; nothing has been
\* evaluated.
NotEvaluated == [raised |-> FALSE, result |-> NotReturned, context |-> Undefined]

\* The view before onOpen: no editor, no document.
Closed == [editor |-> Null, data |-> "", structure |-> <<>>]
NoHistory ==
    [edited |-> FALSE, sinceEdit |-> Timeout, parses |-> 0, parsed |-> Null]

\* The workspace after the plugin's onload: the Query view is not open, the
\* most recent leaf holds no NovelView, the status bar item shows "--" and
\* no interval has been set.
NoDesk ==
    /\ query = QueryClosed
    /\ leaf = "other"
    /\ infoEl = [display |-> "", text |-> "--"]
    /\ refresh = [previousInterval |-> 0, live |-> {}]

NoView ==
    /\ view = Closed
    /\ timer = NoTimer
    /\ history = NoHistory
    /\ saving = FALSE
    /\ NoDesk

\* Nothing is rendered.
NoRender ==
    /\ tree = Undefined
    /\ rendering = [by |-> "none"]

NoQuery ==
    /\ data = ""
    /\ javascript = ""
    /\ context = Undefined
    /\ caller = "none"
    /\ evaluating = "idle"
    /\ outcome = NotEvaluated
    /\ preview = InitialPreview

Init ==
    /\ source \in ParserTexts
    /\ script = ParseStart.script
    /\ currentPosition = ParseStart.currentPosition
    /\ loop = ParseStart.loop
    /\ raised = ParseStart.raised
    /\ result = NotReturned
    /\ NoPass
    /\ NoQuery
    /\ NoRender
    /\ NoView

\* An iteration of the loop over the document's properties.
DocumentProperties ==
    /\ loop = "properties"
    /\ Becomes(DocumentPropertyStep(source, Running))
    /\ UNCHANGED <<source, result, passVars, queryVars, renderVars, viewVars>>

\* An iteration of the loop over the scenes.
DocumentScenes ==
    /\ loop = "scenes"
    /\ Becomes(DocumentSceneStep(source, Running))
    /\ UNCHANGED <<source, result, passVars, queryVars, renderVars, viewVars>>

\* return Success(script), or the exception reaches the caller.
Return ==
    /\ loop = "return"
    /\ loop' = "done"
    /\ result' = IF raised THEN [success |-> FALSE, value |-> "raised"]
                 ELSE Success(script)
    /\ UNCHANGED <<source, currentPosition, script, raised, passVars,
                   queryVars, renderVars, viewVars>>

Next == DocumentProperties \/ DocumentScenes \/ Return

Spec == Init /\ [][Next]_vars

(***************************************************************************)
(* The decoration pass as a state machine: one step per line of a visible  *)
(* range.  The buffer has been parsed (NovelView.structure is the          *)
(* document parseDocument returned for it).                                *)
(***************************************************************************)
\* NovelView.structure: <<>> for null, <<document>> after a parse.
structure == IF result.success THEN <<result.value>> ELSE <<>>

InitStyled ==
    /\ source \in StyledTexts
    /\ result = parseDocument(source)
    /\ script = result.value
    /\ currentPosition = 0
    /\ loop = "done"
    /\ raised = FALSE
    /\ selection \in Selections(source)
    /\ visibleRanges \in VisibleRanges(source)
    /\ building = "range"
    /\ range = 1
    /\ pass = RangeStart(0, <<>>, <<>>)
    /\ NoQuery
    /\ NoRender
    /\ NoView

\* for (const { from, to } of visibleRanges): the next range starts with a
\* fresh lastSpeaker and inDialogue.
BeginRange ==
    /\ building = "range"
    /\ building' = "lines"
    /\ pass' = RangeStart(visibleRanges[range].from, pass.decorations,
                          pass.constructs)
    /\ UNCHANGED <<source, parserVars, selection, visibleRanges, range,
                   queryVars, renderVars, viewVars>>

\* while (pos <= to): one line is decorated.
Line ==
    /\ building = "lines"
    /\ pass.pos <= visibleRanges[range].to
    /\ pass' = DecorateLine(source, structure, selection, pass)
    /\ UNCHANGED <<source, parserVars, selection, visibleRanges, building,
                   range, queryVars, renderVars, viewVars>>

\* The range is exhausted; after the last range builder.finish() is returned.
EndRange ==
    /\ building = "lines"
    /\ pass.pos > visibleRanges[range].to
    /\ range' = range + 1
    /\ building' = IF range + 1 > Len(visibleRanges) THEN "finished"
                   ELSE "range"
    /\ UNCHANGED <<source, parserVars, selection, visibleRanges, pass,
                   queryVars, renderVars, viewVars>>

NextStyled == BeginRange \/ Line \/ EndRange

SpecStyled == InitStyled /\ [][NextStyled]_vars

(***************************************************************************)
(* The TypeScript view as a state machine: an edit of the expression       *)
(* evaluates it (evaluateCode), one step per stage; runTS is also called   *)
(* on its own with any context value.                                      *)
(***************************************************************************)
\* The context values a caller of runTS may pass: an object binding doc to
\* a parsed document, an empty object, and values that are not objects.
Contexts ==
    {Obj([doc |-> parseDocument(ScenarioA).value]), Obj(<<>>), Undefined,
     JSNull, Num(1)}

\* No buffer is parsed or decorated.
NoParse ==
    /\ source = ""
    /\ script = ParseStart.script
    /\ currentPosition = 0
    /\ loop = "done"
    /\ raised = FALSE
    /\ result = NotReturned

InitQuery ==
    /\ NoParse
    /\ NoPass
    /\ NoQuery
    /\ NoRender
    /\ NoView

\* The update listener: view.data = doc.toString(); view.update().  The
\* locals of the evaluation before are gone.
DocChanged ==
    /\ evaluating \in {"idle", "shown"}
    /\ \E code \in Expressions : data' = code
    /\ caller' = "view"
    /\ evaluating' = "evaluateCode"
    /\ javascript' = ""
    /\ context' = Undefined
    /\ outcome' = NotEvaluated
    /\ UNCHANGED <<source, parserVars, passVars, renderVars, viewVars, preview>>

\* evaluateCode up to the call of the runner: transpile, parse the example
\* script, build the context.
BuildContext ==
    /\ evaluating = "evaluateCode"
    /\ javascript' = transpileTStoJS(data)
    /\ context' = EvaluationContext
    /\ evaluating' = "run"
    /\ UNCHANGED <<source, parserVars, passVars, renderVars, viewVars, data,
                   caller, outcome, preview>>

\* A caller other than the view: runTS(typescript, context) up to runJS.
CallRunTS ==
    /\ evaluating \in {"idle", "shown"}
    /\ \E cx \in Contexts : \E code \in Expressions :
        /\ data' = code
        /\ javascript' = transpileTStoJS(code)
        /\ context' = cx
    /\ caller' = "runTS"
    /\ evaluating' = "run"
    /\ outcome' = NotEvaluated
    /\ UNCHANGED <<source, parserVars, passVars, renderVars, viewVars, preview>>

\* runJS(javascript, context); the expression works on the context object
\* it was given.
RunJS ==
    /\ evaluating = "run"
    /\ outcome' = runJS(javascript, context)
    /\ context' = outcome'.context
    /\ evaluating' = IF caller = "view" THEN "show" ELSE "idle"
    /\ UNCHANGED <<source, parserVars, passVars, renderVars, viewVars, data,
                   javascript, caller, preview>>

\* The rest of evaluateCode: a successful result is shown; the else branch
\* is empty.  An exception of tryAsText leaves evaluateCode.
Show ==
    /\ evaluating = "show"
    /\ preview' =
        IF outcome.result.success /\ ~tryAsText(outcome.result.value).thrown
        THEN JSONStringify(tryAsText(outcome.result.value).value)
        ELSE preview
    /\ evaluating' = "shown"
    /\ UNCHANGED <<source, parserVars, passVars, renderVars, viewVars, data,
                   javascript, context, caller, outcome>>

NextQuery == DocChanged \/ BuildContext \/ CallRunTS \/ RunJS \/ Show

SpecQuery == InitQuery /\ [][NextQuery]_vars

(***************************************************************************)
(* The renderer as a state machine: a value is handed to mapAsDOM or to    *)
(* mapAsText.                                                              *)
(***************************************************************************)
\* The values without parts: null, undefined, a number, a string, a
\* function and an object with the render methods.
Leaves ==
    {JSNull, Undefined, Num(1), Str("a"), Fn("() => 1"),
     Renderable(Rec(<<>>))}

\* Arrays, sets and plain objects of one or two of the given values.
Singles(values) ==
    {Arr(<<a>>) : a \in values} \cup {SetOf(<<a>>) : a \in values}
    \cup {Rec(<<[key |-> "k", value |-> a]>>) : a \in values}
Pairs(values) ==
    {Arr(<<a, b>>) : a \in values, b \in values}
    \cup {Rec(<<[key |-> "k", value |-> a], [key |-> "j", value |-> b]>>) :
            a \in values, b \in values}

\* The values the model renders: up to two levels of nesting, and an array
\* that also has the render methods.
RenderValues ==
    Leaves \cup {Arr(<<>>), SetOf(<<Num(1), Str("a")>>),
                 Renderable(Arr(<<Num(1)>>))}
    \cup Singles(Leaves) \cup Pairs(Leaves) \cup Singles(Singles(Leaves))
    \cup {Arr(<<Num(1), c>>) : c \in Pairs({Num(1), JSNull})}

InitRender ==
    /\ NoParse
    /\ NoPass
    /\ NoQuery
    /\ tree \in RenderValues
    /\ rendering = [by |-> "none"]
    /\ NoView

\* mapAsDOM(tree, cx) on an empty container.
RenderDOM ==
    /\ rendering.by = "none"
    /\ rendering' = [by |-> "mapAsDOM", container |-> mapAsDOM(tree, 0)]
    /\ UNCHANGED <<source, parserVars, passVars, queryVars, viewVars, tree>>

\* mapAsText(tree)
RenderText ==
    /\ rendering.by = "none"
    /\ rendering' = [by |-> "mapAsText", value |-> mapAsText(tree)]
    /\ UNCHANGED <<source, parserVars, passVars, queryVars, viewVars, tree>>

NextRender == RenderDOM \/ RenderText

SpecRender == InitRender /\ [][NextRender]_vars

(***************************************************************************)
(* The novel view as a state machine: the view opens, a file is loaded,    *)
(* the user edits, time passes and the debounced update runs.              *)
(***************************************************************************)
\* The texts loaded and typed.
ViewTexts == {"", "hi", "== A ==\nhi", "k: v\n== A ==\n@T c"}

InitView ==
    /\ NoParse
    /\ NoPass
    /\ NoQuery
    /\ NoRender
    /\ NoView

\* onOpen: the editor is created on an empty document.
OnOpen ==
    /\ view.editor = Null
    /\ view' = [view EXCEPT !.editor = ""]
    /\ UNCHANGED <<source, parserVars, passVars, queryVars, renderVars,
                   timer, history, saving, deskVars>>

\* The state after setViewData(text): the text replaces the editor's
\* document (the update listener requests the save and the debounced update
\* unless the change is empty), then update() rebuilds the structure at once.
Loaded(text, listening) ==
    [view |-> rebuildStructure(
                  [view EXCEPT !.data = text,
                               !.editor = IF listening THEN text ELSE @]),
     timer |-> IF listening /\ ~(view.editor = "" /\ text = "")
               THEN requestUpdate(timer) ELSE timer,
     saving |-> IF listening /\ ~(view.editor = "" /\ text = "")
                THEN TRUE ELSE saving,
     history |-> [edited |-> FALSE, sinceEdit |-> Timeout, parses |-> 0,
                  parsed |-> IF listening THEN text ELSE history.parsed]]

SetViewData ==
    /\ \E text \in ViewTexts :
        /\ view' = Loaded(text, view.editor # Null).view
        /\ timer' = Loaded(text, view.editor # Null).timer
        /\ history' = Loaded(text, view.editor # Null).history
        /\ saving' = Loaded(text, view.editor # Null).saving
    /\ UNCHANGED <<source, parserVars, passVars, queryVars, renderVars,
                   deskVars>>

\* The user changes the text: the update listener stores it and requests
\* the save and the debounced update.  An edit within Timeout of the edit before
\* continues the burst.
Edit ==
    /\ view.editor # Null
    /\ \E text \in ViewTexts \ {view.editor} :
        view' = [view EXCEPT !.editor = text, !.data = text]
    /\ timer' = requestUpdate(timer)
    /\ saving' = TRUE
    /\ history' =
        [history EXCEPT
            !.edited = TRUE,
            !.sinceEdit = 0,
            !.parses = IF history.edited /\ history.sinceEdit < Timeout
                       THEN @ ELSE 0]
    /\ UNCHANGED <<source, parserVars, passVars, queryVars, renderVars,
                   deskVars>>

\* Tick milliseconds pass; a timer that has run out fires first.
Elapse ==
    /\ ~(timer.pending /\ timer.remaining = 0)
    /\ timer.pending \/ history.sinceEdit < Timeout
    /\ timer' = IF timer.pending
                THEN [timer EXCEPT !.remaining = Max(@ - Tick, 0)]
                ELSE timer
    /\ history' = [history EXCEPT !.sinceEdit = Min(@ + Tick, Timeout)]
    /\ UNCHANGED <<source, parserVars, passVars, queryVars, renderVars,
                   view, saving, deskVars>>

\* The timer runs out: update() rebuilds the structure.
Fire ==
    /\ timer.pending
    /\ timer.remaining = 0
    /\ timer' = NoTimer
    /\ view' = rebuildStructure(view)
    /\ history' = [history EXCEPT !.parses = Min(@ + 1, MaxParses),
                                  !.parsed = view.editor]
    /\ UNCHANGED <<source, parserVars, passVars, queryVars, renderVars,
                   saving, deskVars>>

NextView == OnOpen \/ SetViewData \/ Edit \/ Elapse \/ Fire

SpecView == InitView /\ [][NextView]_vars

\* The host's event loop runs a timer that has run out: the step of Fire
\* as the timer sees it.
TimerRuns ==
    /\ timer.pending
    /\ timer.remaining = 0
    /\ timer' = NoTimer

\* Time passes, and a timer that has run out is run.
SpecViewLive ==
    InitView /\ [][NextView]_vars /\ WF_vars(Elapse) /\ WF_timer(TimerRuns)

(***************************************************************************)
(* The workspace as a state machine: the NovelView, the Query view and     *)
(* the status bar estimate, with the events of the host.                   *)
(***************************************************************************)
\* QueryView.onOpen
QueryOnOpen ==
    /\ ~query.opened
    /\ query' = QueryOpened
    /\ UNCHANGED <<source, parserVars, passVars, queryVars, renderVars,
                   view, timer, history, saving, leaf, infoEl, refresh>>

\* The identifiers setInterval can return once the previous interval is
\* cleared: those of no live timer.
FreeIntervals ==
    {id \in 1..MaxIntervals : \A t \in clearedIntervals(refresh) : t.id # id}

\* 'active-leaf-change': another leaf becomes the most recent one.  The
\* Query view, when open, updates its results; the plugin's handler sets
\* the interval of a NovelView and shows its estimate, or hides the item.
ActiveLeafChange ==
    /\ \E l \in WorkspaceLeaves \ {leaf} :
        /\ leaf' = l
        /\ query' = IF query.opened THEN updateResults(query, l, view)
                     ELSE query
        /\ IF l \in NovelLeaves
           THEN /\ FreeIntervals # {}
                /\ refresh' =
                    setRefresh(refresh, l,
                               CHOOSE id \in FreeIntervals :
                                   \A other \in FreeIntervals : id <= other)
                /\ infoEl' = updateInfoEl(ViewIn(l, view))
           ELSE /\ infoEl' = [infoEl EXCEPT !.display = "none"]
                /\ UNCHANGED refresh
    /\ UNCHANGED <<source, parserVars, passVars, queryVars, renderVars,
                   view, timer, history, saving>>

\* The vault's 'modify' event for the file of the NovelView, after a save
\* was requested: the handler of the Query view runs.
Modify ==
    /\ saving
    /\ saving' = FALSE
    /\ query' = onModify(query, leaf, view)
    /\ UNCHANGED <<source, parserVars, passVars, queryVars, renderVars,
                   view, timer, history, leaf, infoEl, refresh>>

\* A live interval timer runs: updateInfoEl(view) for the view it was set
\* for.
IntervalRuns ==
    /\ \E t \in refresh.live :
        infoEl' = updateInfoEl(ViewIn(t.view, view))
    /\ UNCHANGED <<source, parserVars, passVars, queryVars, renderVars,
                   view, timer, history, saving, query, leaf, refresh>>

\* The NovelView, opened on an empty file and edited, and the Query view.
NextPanel ==
    OnOpen \/ Edit \/ Elapse \/ Fire \/ QueryOnOpen \/ ActiveLeafChange
        \/ Modify

SpecPanel == InitView /\ [][NextPanel]_vars

\* The NovelView being opened and loaded, and the status bar estimate.
NextStatus ==
    OnOpen \/ SetViewData \/ QueryOnOpen \/ ActiveLeafChange \/ IntervalRuns

SpecStatus == InitView /\ [][NextStatus]_vars

(***************************************************************************)
(* Properties of the parser.                                               *)
(***************************************************************************)
Done == loop = "done"
Document == result.value
Scenes == Document.scenes
Lines == {lineAt(source, p) : p \in LineStarts(source)}

\* RichText.asText() of a RichText made of Text parts.
RECURSIVE asText(_)
asText(parts) ==
    IF parts = <<>> THEN "" ELSE Head(parts).c \o asText(Tail(parts))

\* C1: parsing Scenario A gives the metadata {Title: "A"} and one scene,
\* "Scene 1", with exactly the items ActionLine("Hello.") and
\* TaggedAction(tag "BGM", content "Song").
C1_ScenarioA ==
    (Done /\ source = ScenarioA) =>
        /\ result.success
        /\ Document.metadata = [k \in {"Title"} |-> "A"]
        /\ Len(Scenes) = 1
        /\ Scenes[1].name = "Scene 1"
        /\ Len(Scenes[1].items) = 2
        /\ Scenes[1].items[1].t = "action"
        /\ asText(Scenes[1].items[1].c.content.parts) = "Hello."
        /\ Scenes[1].items[2].t = "taggedAction"
        /\ Scenes[1].items[2].c.tag = "BGM"
        /\ asText(Scenes[1].items[2].c.content.parts) = "Song"

\* C2: the scenes of a parsed document are sorted by `from` and do not
\* overlap: each scene ends no later than the next one starts.
C2_ScenesSorted ==
    Done =>
        \A i \in 1..(Len(Scenes) - 1) :
            /\ Scenes[i].from <= Scenes[i + 1].from
            /\ Scenes[i].to <= Scenes[i + 1].from

\* C3: when the line at the cursor of the scene loop is not blank and not a
\* scene header, the iteration skips that line alone: the cursor moves to
\* the start of the next line (the end of the buffer after the last line)
\* and no scene is added.
C3_SkipsOneLine ==
    [][(/\ loop = "scenes"
        /\ currentPosition < Len(source)
        /\ ~IsBlank(lineAt(source, currentPosition).text)
        /\ ~HeaderMatch(lineAt(source, currentPosition).text, FALSE).matched)
       => (/\ currentPosition' =
                 Min(Len(source), lineAt(source, currentPosition).to + 1)
           /\ script' = script)]_vars

\* C4: parseDocument never raises and always returns a Success that
\* carries the accumulated document.
C4_NeverRaises ==
    /\ ~raised
    /\ Done => (result.success /\ result.value = script)

\* C4's case: the parse of a buffer with no header and no final line break
\* has returned.
C4_Witness == Done /\ source = "hi" /\ result.success

\* The start of the first header line after position p, or the length of the
\* buffer when no header line follows.
NextHeaderFrom(p) ==
    LET later == {l \in Lines : l.from > p /\ HeaderMatch(l.text, FALSE).matched}
    IN  IF later = {} THEN Len(source)
        ELSE CHOOSE f \in {l.from : l \in later} :
                \A l \in later : f <= l.from

\* C5: the range of every scene starts at the first character of its header
\* line and reaches the next header line (or the end of the buffer); the
\* line break in front of the next header may be left out.
C5_SceneRange ==
    Done =>
        \A i \in 1..Len(Scenes) :
            /\ \E l \in Lines :
                /\ l.from = Scenes[i].from
                /\ HeaderMatch(l.text, FALSE).matched
            /\ \/ Min(Scenes[i].to, Len(source)) = NextHeaderFrom(Scenes[i].from)
               \/ /\ NextHeaderFrom(Scenes[i].from) < Len(source)
                  /\ Scenes[i].to = NextHeaderFrom(Scenes[i].from) - 1

\* The items of all scenes of the parsed document, in document order.
RECURSIVE ItemsFrom(_)
ItemsFrom(i) ==
    IF i > Len(Scenes) THEN <<>> ELSE Scenes[i].items \o ItemsFrom(i + 1)
Items == ItemsFrom(1)

TextAt(p) == lineAt(source, p).text

\* C7: in a scene a speaker line yields a Speaker item, the fallback lines
\* right after it are DialogueLine items, and after a blank line fallback
\* lines are ActionLine items again: the scene "== S ==", "[Alice]", "Hi.",
\* "", "Bye." has the items Speaker, DialogueLine, ActionLine.
C7_DialogueState ==
    Done =>
        /\ \A k \in 1..Len(Items) :
            SpeakerMatch(TextAt(Items[k].c.from)).matched
                => Items[k].t = "speaker"
        /\ source = SceneB =>
            [k \in 1..Len(Items) |-> Items[k].t]
                = <<"speaker", "dialogue", "action">>

\* C10: the rich text of every item holds its `[[target]]`, `**text**` and
\* `*text*` spans as Reference and Formatting parts: no Text part contains
\* such a span.
C10_RichTextParts ==
    Done =>
        \A k \in 1..Len(Items) :
            \A j \in 1..Len(Items[k].c.content.parts) :
                LET part == Items[k].c.content.parts[j] IN
                part.t = "text" =>
                    /\ matchAll("wikilink", part.c, 0) = <<>>
                    /\ matchAll("bold", part.c, 0) = <<>>
                    /\ matchAll("italic", part.c, 0) = <<>>

(***************************************************************************)
(* Properties of the decoration pass.                                      *)
(***************************************************************************)
Finished == building = "finished"

\* The lines the pass has processed, each with the construct it was taken for.
Constructs == {pass.constructs[i] : i \in 1..Len(pass.constructs)}

SingleEquals(text) == Ch(text, 0) = "=" /\ Ch(text, 1) # "="

\* C6: a line that matches the scene-header pattern is styled as a header
\* and yields no item of the parsed document; a line that starts with a
\* single `=` is neither styled as a header nor the start of a scene; and
\* parsing `=Scene=\nHello.\n` produces no scene.
C6_HeaderPriority ==
    /\ \A c \in Constructs :
        /\ HeaderMatch(TextAt(c.from), TRUE).matched => c.construct = "header"
        /\ SingleEquals(TextAt(c.from)) => c.construct # "header"
    /\ Done =>
        /\ \A k \in 1..Len(Items) :
            ~HeaderMatch(TextAt(Items[k].c.from), FALSE).matched
        /\ \A i \in 1..Len(Scenes) :
            ~SingleEquals(TextAt(Scenes[i].from))
        /\ source = ScenarioC => Scenes = <<>>

\* C6's case: a header line and a line delimited by single equals signs have
\* both been parsed and styled.
C6_Witness ==
    /\ Finished
    /\ source = SceneC
    /\ Len(Scenes) = 1
    /\ [from |-> 0, construct |-> "header"] \in Constructs
    /\ [from |-> 8, construct |-> "action"] \in Constructs

\* The scenes whose range holds the position p.
ScenesAround(p) ==
    {i \in 1..Len(Scenes) : Scenes[i].from <= p /\ p < Scenes[i].to}

\* The constructs the parser took the line for: a header when a scene starts
\* on it, the kind of every item that starts on it, a property when it
\* lies between a scene's header and the scene's first item and matches the
\* property pattern.
ParsedAs(line) ==
    {"header" : i \in {j \in 1..Len(Scenes) : Scenes[j].from = line.from}}
    \cup {Items[k].t : k \in {j \in 1..Len(Items) :
            line.from <= Items[j].c.from /\ Items[j].c.from <= line.to}}
    \cup {"property" : i \in {j \in ScenesAround(line.from) :
            /\ Scenes[j].from < line.from
            /\ PropertyMatch(line.text).matched
            /\ \A k \in 1..Len(Scenes[j].items) :
                line.to < Scenes[j].items[k].c.from}}

\* C8: the pass over the whole buffer takes every line inside a scene for
\* the construct the parser takes it for (a blank line is no construct of the
\* parsed document).
C8_SameConstructs ==
    Finished =>
        \A c \in Constructs :
            ScenesAround(c.from) # {}
                => ParsedAs(lineAt(source, c.from)) =
                     IF c.construct = "blank" THEN {} ELSE {c.construct}

\* The speaker widgets of the decoration set, in order.
SpeakerWidgets ==
    SelectSeq(pass.decorations,
              LAMBDA d : d.replace /\ d.class = "SpeakerWidget")
SpeakerLabels ==
    [i \in 1..Len(SpeakerWidgets) |-> textContent(SpeakerWidgets[i])]

\* The named (non-`&`) speaker lines that start before p.
NamedBefore(p) ==
    {c \in Constructs :
        /\ c.from < p
        /\ c.construct = "speaker"
        /\ SpeakerMatch(TextAt(c.from)).reference # "&"}

\* C9: with the cursor on no speaker line, Scenario B parses to two dialogue
\* lines and is decorated with the speaker widgets "Alice" and
\* "Alice (CONT'D)"; and the widget of a `[&]` line shows the alias or name
\* of the most recent named speaker line before it.
C9_ScenarioB ==
    (Finished /\ \A c \in Constructs :
        c.construct = "speaker"
            => ~lineHasCursor(selection, lineAt(source, c.from))) =>
        /\ source = ScenarioB =>
            /\ Len(SelectSeq(Items, LAMBDA it : it.t = "dialogue")) = 2
            /\ SpeakerLabels = <<"Alice", "Alice (CONT'D)">>
        /\ \A i \in 1..Len(SpeakerWidgets) :
            LET w == SpeakerWidgets[i]
                named == NamedBefore(w.from)
                last == CHOOSE c \in named : \A d \in named : d.from <= c.from
                match == SpeakerMatch(TextAt(last.from))
            IN  (w.contd /\ named # {}) =>
                    w.detail = IF match.alias # Null THEN match.alias
                               ELSE match.reference

(***************************************************************************)
(* Properties of parseProperty and of the queries on a parsed document.    *)
(***************************************************************************)
\* s without the blanks at its end.
TrimEnd(s) ==
    Mid(s, 0, CHOOSE j \in 0..Len(s) :
                /\ j = 0 \/ ~IsSpace(Ch(s, j - 1))
                /\ \A k \in j..(Len(s) - 1) : IsSpace(Ch(s, k)))

\* A line of the form: bare-word key, colon, optional blanks, rest.
IsPropertyLine(text) ==
    \E k \in 1..Len(text) :
        /\ \A i \in 0..(k - 1) : IsWord(Ch(text, i))
        /\ Ch(text, k) = ":"

\* The rest of a property line: what follows the colon and the blanks
\* after it.
RestOf(text) ==
    Mid(text, WordRun(text, 0) + 1 + SpaceRun(text, WordRun(text, 0) + 1),
        Len(text))

\* The metadata records of the parsed document: the document's own and
\* each scene's.
Metadatas ==
    {Document.metadata} \cup {Scenes[i].metadata : i \in 1..Len(Scenes)}

\* C11: parseProperty succeeds exactly on the lines "key: rest" with a
\* bare-word key, and the value it returns is the rest of the line without
\* the blanks at its end; the values stored at document scope and at scene
\* scope are such values.
C11_PropertyValue ==
    Done =>
        /\ \A p \in LineStarts(source) :
            /\ parseProperty(source, p).success <=> IsPropertyLine(TextAt(p))
            /\ parseProperty(source, p).success =>
                parseProperty(source, p).value[2] = TrimEnd(RestOf(TextAt(p)))
        /\ \A metadata \in Metadatas : \A key \in DOMAIN metadata :
            metadata[key] = TrimEnd(metadata[key])

\* The tags the queries of the model ask for.
QueryTags == {"BGM", "SFX", "T"}

\* C12: cues(tag) on a parsed document is the sequence of the tagged action
\* items of all scenes that carry the tag, in document order; on Scenario A,
\* cues("BGM") has exactly one element, the tagged action "@BGM Song".
C12_Cues ==
    (Done /\ result.success) =>
        /\ \A tag \in QueryTags :
            cues(Document, tag) =
                SelectSeq(Items, LAMBDA x : x.t = "taggedAction"
                                            /\ x.c.tag = tag)
        /\ source = ScenarioA => Len(cues(Document, "BGM")) = 1

(***************************************************************************)
(* Properties of the evaluator and of the TypeScript view.                 *)
(***************************************************************************)
\* C13: evaluating an expression (runTS / runJS) never propagates an
\* exception to the caller: for every expression string, whether it fails
\* to compile or throws at runtime, and for every context value, the call
\* returns Success(value) or a Failure carrying the diagnostic.
C13_NoException ==
    /\ ~outcome.raised
    /\ outcome # NotEvaluated =>
        \/ outcome.result.success
        \/ outcome.result.value.kind = "error"

\* C14: when an evaluation ends in Failure, the TypeScript view displays the
\* evaluator's diagnostic in place of a rendered result; it does not keep
\* showing the result of an earlier, successful expression.
C14_FailureShown ==
    (evaluating = "shown" /\ ~outcome.result.success) =>
        preview \in {JSONStringify(outcome.result.value),
                     [text |-> outcome.result.value.v]}

\* C15: evaluating an expression leaves the Document bound to doc in the
\* evaluation context (its metadata, its scene list and every scene's
\* items) as it was before the evaluation.
C15_DocumentUnchanged ==
    [][(evaluating = "run" /\ context.kind = "object"
            /\ "doc" \in DOMAIN context.v)
        => context'.v.doc = context.v.doc]_vars

(***************************************************************************)
(* Properties of the generic renderer.                                     *)
(***************************************************************************)
RECURSIVE Concat(_)
Concat(seqs) == IF seqs = <<>> THEN <<>> ELSE Head(seqs) \o Concat(Tail(seqs))

\* Each child of a sequence rendered at the given depth.
ChildrenAt(items, depth) ==
    Concat([i \in 1..Len(items) |-> mapAsDOM(items[i], depth)])

IsLeaf(elements) == Len(elements) = 1 /\ elements[1].el = "span"

\* C16: the renderer dispatches in a fixed order, first match wins: (1) a
\* value with the render method is delegated to, also when it is a sequence
\* or a record; (2) a sequence renders each child recursively, inside one
\* group only when the depth is above 0; (3) a set renders as the sequence
\* of its members; (4) a record renders one labelled group per key; (5) a
\* function renders its source text as a leaf; (6) anything else renders as
\* a generic text leaf.
C16_DispatchOrder ==
    /\ rendering.by = "mapAsDOM" =>
        CASE HasMethod(tree, "pushDOM") ->
                rendering.container = <<Pushed(tree)>>
          [] tree.kind \in {"array", "set"} ->
                /\ rendering.container = ChildrenAt(tree.items, 1)
                /\ \A i \in 1..Len(tree.items) :
                    (tree.items[i].kind \in {"array", "set"}
                        /\ ~HasMethod(tree.items[i], "pushDOM")) =>
                        mapAsDOM(tree.items[i], 1) =
                            <<Fieldset(ChildrenAt(tree.items[i].items, 2))>>
          [] tree.kind = "object" ->
                /\ Len(rendering.container) = Len(tree.entries)
                /\ \A i \in 1..Len(tree.entries) :
                    rendering.container[i] =
                        Fieldset(<<Legend(tree.entries[i].key)>>
                                 \o mapAsDOM(tree.entries[i].value, 0))
          [] tree.kind = "function" ->
                rendering.container = <<Span([source |-> tree.text])>>
          [] OTHER -> IsLeaf(rendering.container)
    /\ rendering.by = "mapAsText" =>
        CASE HasMethod(tree, "asText") -> rendering.value = [asText |-> tree]
          [] tree.kind \in {"array", "set"} ->
                rendering.value =
                    [list |-> [i \in 1..Len(tree.items) |->
                                  mapAsText(tree.items[i])]]
          [] tree.kind = "function" ->
                rendering.value = [source |-> tree.text]
          [] tree.kind = "object" -> TRUE
          [] OTHER -> rendering.value = JSONStringify(tree)

(***************************************************************************)
(* Properties of the novel view and of its debounced update.               *)
(***************************************************************************)
\* C17: at most one reparse is scheduled at any time; an edit arriving
\* while a reparse is pending restarts the interval from that edit, and a
\* burst of edits is followed by exactly one parse: none while the burst
\* lasts, one when it is over.
C17_OneParsePerBurst ==
    /\ (history.edited /\ history.sinceEdit = 0 /\ timer.pending) =>
        timer.remaining = Timeout
    /\ history.edited => history.parses <= 1
    /\ (history.edited /\ history.sinceEdit >= Timeout /\ ~timer.pending) =>
        history.parses = 1

Decorations == {pass.decorations[i] : i \in 1..Len(pass.decorations)}
Widgets == {d \in Decorations : d.replace}

\* The lines of the buffer.
BufferLines == {lineAt(source, p) : p \in LineStarts(source)}

\* The decoration covers a part of the line.
Covers(d, line) == d.from <= line.to /\ line.from <= d.to

\* The span of the line intersects a selection range.
Selected(line) ==
    \E r \in selection : r.from <= line.to /\ line.from <= r.to

\* C19: no replacing widget (speaker label, prompt list, reference or link
\* label, playback control) covers any part of a line whose span intersects
\* a selection range; and no widget covers a scene header line, selected
\* or not.
C19_NoWidgetOnSelection ==
    \A d \in Widgets : \A line \in BufferLines :
        Covers(d, line) =>
            /\ ~Selected(line)
            /\ ~HeaderMatch(line.text, TRUE).matched

\* C19's case: the selection runs from the first line of Scenario B to the
\* start of the second; the speaker line in it carries a style mark, the
\* line it touches too, and the `[&]` line outside it is replaced by a
\* speaker widget.
C19_Witness ==
    /\ Finished
    /\ source = ScenarioB
    /\ selection = {[from |-> 0, to |-> 8]}
    /\ \E d \in Decorations :
        d.from = 0 /\ d.to = 7 /\ ~d.replace /\ d.class = "novel-speaker"
    /\ \E d \in Decorations : d.from = 8 /\ ~d.replace /\ d.selected
    /\ \E d \in Widgets : d.from = 12 /\ d.class = "SpeakerWidget"

\* The visible range that holds the position.
RangeAt(p) ==
    CHOOSE r \in {visibleRanges[i] : i \in 1..Len(visibleRanges)} :
        r.from <= p /\ p <= r.to

\* The named (non-`&`) speaker lines before p in the visible range of p.
NamedInRangeBefore(p) ==
    {c \in NamedBefore(p) : RangeAt(p).from <= c.from}

\* C20: the decoration state is (false, none) at the beginning of every
\* visible range, and the widget of a `[&]` line with no named speaker line
\* before it in the same visible range shows the placeholder.
C20_StatePerRange ==
    /\ (building = "lines" /\ pass.pos = visibleRanges[range].from) =>
        /\ pass.inDialogue = FALSE
        /\ pass.lastSpeaker = [reference |-> Null, alias |-> Null]
    /\ \A i \in 1..Len(SpeakerWidgets) :
        (SpeakerWidgets[i].contd
            /\ NamedInRangeBefore(SpeakerWidgets[i].from) = {}) =>
            SpeakerWidgets[i].detail = "???"

(***************************************************************************)
(* Properties of the parsed document: property runs, ranges, headers.      *)
(***************************************************************************)
\* The metadata after absorbing the contiguous run of property lines that
\* starts with the line at p; a repeated key keeps the last value.
RECURSIVE Absorbed(_, _)
Absorbed(metadata, p) ==
    IF p > Len(source) \/ ~IsPropertyLine(TextAt(p)) THEN metadata
    ELSE Absorbed(SetProperty(metadata, parseProperty(source, p).value[1],
                              parseProperty(source, p).value[2]),
                  lineAt(source, p).to + 1)

\* C21: at document start and right after a scene header the contiguous run
\* of property lines is absorbed into that scope's Metadata (a repeated key
\* keeps the last value); the first line that is no property line, a blank
\* line included, ends the run, and no later property-shaped line is added.
C21_PropertyRuns ==
    (Done /\ result.success) =>
        /\ Document.metadata = Absorbed(EmptyMetadata, 0)
        /\ \A i \in 1..Len(Scenes) :
            Scenes[i].metadata =
                Absorbed(EmptyMetadata, lineAt(source, Scenes[i].from).to + 1)


\* C22: every scene and every item has 0 <= from <= to <= length of the
\* buffer, and the range of every item lies inside the range of its scene.
C22_RangesInBuffer ==
    (Done /\ result.success) =>
        \A i \in 1..Len(Scenes) :
            /\ 0 <= Scenes[i].from
            /\ Scenes[i].from <= Scenes[i].to
            /\ Scenes[i].to <= Len(source)
            /\ \A j \in 1..Len(Scenes[i].items) :
                /\ 0 <= Scenes[i].items[j].c.from
                /\ Scenes[i].items[j].c.from <= Scenes[i].items[j].c.to
                /\ Scenes[i].items[j].c.to <= Len(source)
                /\ Scenes[i].from <= Scenes[i].items[j].c.from
                /\ Scenes[i].items[j].c.to <= Scenes[i].to


(***************************************************************************)
(* Properties of the decoration pass at scene headers.                     *)
(***************************************************************************)
\* The line step of the decoration pass stands on a scene header line.
OnHeaderLine ==
    /\ building = "lines"
    /\ pass.pos <= visibleRanges[range].to
    /\ ~IsBlank(TextAt(pass.pos))
    /\ HeaderMatch(TextAt(pass.pos), TRUE).matched

\* C23: decorating a scene header line resets the per-scene state (not in
\* dialogue, no last speaker), so that a `[&]` line right after a header does
\* not continue the speaker of the previous scene.
C23_HeaderResetsState ==
    [][OnHeaderLine =>
        /\ pass'.inDialogue = FALSE
        /\ pass'.lastSpeaker = [reference |-> Null, alias |-> Null]]_vars


(***************************************************************************)
(* Properties of the scanning loops of the parser.                         *)
(***************************************************************************)
\* The offsets at which the scene header lines of the buffer start.
HeaderStarts == {l.from : l \in {h \in Lines : HeaderMatch(h.text, FALSE).matched}}

\* C24: parseDocument produces exactly one scene per scene header line, in
\* textual order: no header line is skipped and none yields two scenes.
C24_OneScenePerHeader ==
    (Done /\ result.success) =>
        /\ {Scenes[i].from : i \in 1..Len(Scenes)} = HeaderStarts
        /\ \A i, j \in 1..Len(Scenes) : i < j => Scenes[i].from < Scenes[j].from


\* parseDocument is about to call parseScene on a line that holds a header.
CallsParseScene ==
    /\ loop = "scenes"
    /\ currentPosition < Len(source)
    /\ ~IsBlank(TextAt(currentPosition))
    /\ HeaderMatch(TextAt(currentPosition), FALSE).matched

\* The iteration of parseScene's item loop that starts in state st stops at
\* a line whose first character is `=`.
StopsAtEquals(st) ==
    /\ st.loop = "items"
    /\ st.currentPosition < Len(source)
    /\ TextAt(st.currentPosition) # "\n"
    /\ Ch(TextAt(st.currentPosition), 0) = "="

\* No iteration of parseScene's loops, in the call parseDocument is about to
\* make, moves the cursor back, and every iteration after which the loop
\* goes on strictly increases it.
SceneIterationsAdvance ==
    LET Advancing(run) ==
            \A k \in 1..(Len(run) - 1) :
                /\ run[k + 1].currentPosition >= run[k].currentPosition
                /\ run[k + 1].loop = run[k].loop =>
                    run[k + 1].currentPosition > run[k].currentPosition
    IN  Advancing(SceneRun(source, SceneStart(source, currentPosition)))

\* Every iteration after which the loop goes on strictly increases the
\* cursor; an iteration that leaves its loop keeps the cursor, except that the
\* stop at a line starting with `=` moves it back by one.
SceneRunAdvances ==
    LET Advancing(run) ==
            \A k \in 1..(Len(run) - 1) :
                /\ ~run[k + 1].raised
                /\ run[k + 1].loop = run[k].loop =>
                    /\ run[k].currentPosition < Len(source)
                    /\ run[k + 1].currentPosition > run[k].currentPosition
                /\ run[k + 1].loop # run[k].loop =>
                    run[k + 1].currentPosition =
                        IF StopsAtEquals(run[k])
                        THEN run[k].currentPosition - 1
                        ELSE run[k].currentPosition
    IN  Advancing(SceneRun(source, SceneStart(source, currentPosition)))

\* C25 (as stated): every iteration of each scanning loop (document
\* properties, scenes, scene properties, scene items) strictly increases the
\* cursor, and no call of lineAt is made past the end of the buffer.  Read
\* in favour of the code: an iteration after which the loop goes on strictly
\* increases the cursor, and no iteration moves it back.
C25_EveryIterationAdvances ==
    [][/\ ~raised'
       /\ loop \in {"properties", "scenes"} =>
            /\ currentPosition' >= currentPosition
            /\ loop' = loop => currentPosition' > currentPosition
       /\ CallsParseScene => SceneIterationsAdvance]_vars

\* C25 (amended): every iteration after which its loop goes on strictly
\* increases the cursor, so both functions terminate; an iteration that
\* leaves its loop keeps the cursor, except that the item loop's stop at a
\* line starting with `=` moves it back by one; no call of lineAt is made
\* past the end of the buffer.
C25_CursorAdvances ==
    [][/\ ~raised'
       /\ (loop \in {"properties", "scenes"} /\ loop' = loop) =>
            /\ currentPosition < Len(source)
            /\ currentPosition' > currentPosition
       /\ (loop \in {"properties", "scenes"} /\ loop' # loop) =>
            currentPosition' = currentPosition
       /\ CallsParseScene => SceneRunAdvances]_vars

\* A scene whose item loop went on over a line and then stopped at a line
\* starting with `=` has been parsed.
C25_Witness ==
    /\ Done
    /\ source = "== A ==\nhi\n=x"
    /\ Len(Scenes) = 1
    /\ Len(Scenes[1].items) = 1
    /\ Scenes[1].to = 10


(***************************************************************************)
(* Properties of the debounced reparse after edits.                        *)
(***************************************************************************)
\* NovelView.structure is the document of the editor's current buffer.
StructureCurrent ==
    /\ view.editor # Null
    /\ view.structure = <<parseDocument(view.editor).value>>

\* C26: when the edits stop, the pending debounced update fires, and from
\* then on NovelView.structure is parseDocument of the current buffer until
\* the next edit; no sequence of edits leaves the last edit unparsed.
C26_LastEditParsed ==
    /\ timer.pending ~> ~timer.pending
    /\ [](history.edited /\ ~timer.pending => StructureCurrent)

\* After edits, with no update pending, the structure shows the scene of the
\* last edit's buffer, parsed by the debounced update.
C26_Witness ==
    /\ history.edited
    /\ history.sinceEdit = Timeout
    /\ ~timer.pending
    /\ history.parses >= 1
    /\ view.editor = "== A ==\nhi"
    /\ StructureCurrent
    /\ Len(getScenes(view)) = 1


(***************************************************************************)
(* Properties of the scene fold ranges.                                    *)
(***************************************************************************)
\* The start of the first scene header line of the text after offset p, or
\* the length of the text when no header line follows.
NextHeaderIn(text, p) ==
    LET later == {q \in LineStarts(text) :
                     q > p /\ HeaderMatch(lineAt(text, q).text, FALSE).matched}
    IN  IF later = {} THEN Len(text)
        ELSE CHOOSE q \in later : \A r \in later : q <= r

\* The fold ranges the scene fold service returns for the lines of the
\* editor's buffer, each with the line start it was asked for.
FoldRanges ==
    IF view.editor = Null THEN {}
    ELSE UNION {{[lineStart |-> p, fold |-> r] :
                    r \in sceneFoldService(view.structure, view.editor, p)} :
                p \in LineStarts(view.editor)}

\* C27: every fold range the scene fold service returns lies inside the
\* current buffer and ends no later than the next scene header of the
\* current buffer, also between an edit and the debounced reparse.
C27_FoldInsideBuffer ==
    \A f \in FoldRanges :
        /\ 0 <= f.fold.from
        /\ f.fold.from <= f.fold.to
        /\ f.fold.to <= Len(view.editor)
        /\ f.fold.to <= NextHeaderIn(view.editor, f.lineStart)


(***************************************************************************)
(* Properties of the continuation marker in the decoration pass.           *)
(***************************************************************************)
\* The line step of the decoration pass stands on a `[&]` line.
OnContinuationLine ==
    /\ building = "lines"
    /\ pass.pos <= visibleRanges[range].to
    /\ TextAt(pass.pos) = "[&]"

\* C28: processing a `[&]` line never changes the remembered last speaker,
\* whether or not the line is selected.
C28_ContinuationKeepsSpeaker ==
    [][OnContinuationLine => pass'.lastSpeaker = pass.lastSpeaker]_vars


(***************************************************************************)
(* Properties of the Query view after edits.                               *)
(***************************************************************************)
\* The Query view shows the NovelView of the model, the edits have stopped,
\* and both the file-modify notification and the debounced reparse have
\* happened since the last edit.
QuerySettled ==
    /\ query.opened
    /\ query.currentView = "A"
    /\ leaf = "A"
    /\ history.edited
    /\ ~saving
    /\ ~timer.pending

\* C29: after the edits stop, once the file-modify notification and the
\* debounced reparse have both happened, in either order, the Query view
\* shows the results computed from the parse of the final buffer.
C29_QueryShowsFinalParse ==
    QuerySettled =>
        query.results =
            [text |-> "",
             entries |->
                 updateWithHeadings(
                     [view EXCEPT !.structure =
                                      <<parseDocument(view.editor).value>>])]


(***************************************************************************)
(* Properties of the status bar estimate.                                  *)
(***************************************************************************)
\* C30: while the active leaf holds no NovelView the status bar estimate
\* stays hidden: no timer of a NovelView that was active before makes it
\* visible again; at most one refresh timer is live at a time.
C30_EstimateStaysHidden ==
    [][/\ (leaf \notin NovelLeaves /\ leaf' = leaf
              /\ infoEl.display = "none") =>
            infoEl'.display = "none"
       /\ Cardinality(refresh'.live) <= 1]_vars

=============================================================================
